---- MODULE Spec2Model ----
(***************************************************************************)
(* Model of tools/clangd-idx-viewer.py: the decoder of clangd index shards *)
(* (.idx files).  A shard is a RIFF container; IdxFileParser picks a       *)
(* version strategy from the 'meta' chunk, builds the StringTable from     *)
(* the 'stri' chunk and decodes the 'symb', 'refs', 'rela', 'srcs' and     *)
(* 'cmdl' chunks on request.                                               *)
(*                                                                         *)
(* Bytes are the integers 0..255, a bytes object is a sequence of them, a  *)
(* decoded str is the sequence of its code points.  A BytesIO stream is    *)
(* its buffer plus the cursor position `pos`.  The exception a read        *)
(* raises is carried in the `err` field of the reader state and passed     *)
(* through by every later read, up to the handler that catches it or to    *)
(* the caller.                                                             *)
(*                                                                         *)
(* A second part models tools/generate-index.py, the ClangdIndexGenerator  *)
(* that starts clangd and talks LSP to it from three threads.              *)
(*                                                                         *)
(* The specifications share the variables:                                 *)
(*   Spec      IdxFileParser from the chunk map on: _initialize and the    *)
(*             five decoders, on shards RIFFParser has read whole;         *)
(*   CallsSpec the same steps on fewer shards, with the history of how     *)
(*             the first call of each decoder ended;                       *)
(*   RiffSpec  RIFFParser.__init__ from the bytes of a file to the chunk   *)
(*             map, followed by _initialize and the decoders;              *)
(*   UnitSpec  read_varint and the strategies' parse_ref and               *)
(*             parse_include_header, each called on a stream of its own;   *)
(*   LspSpec   the main thread and the message reader thread sending       *)
(*             JSON-RPC messages to clangd's stdin, and shutdown();        *)
(*   ErrSpec   the stderr thread and the message reader thread counting    *)
(*             errors in files_with_errors;                                *)
(*   WaitSpec  wait_for_indexing_completion and ensure_all_files_indexed   *)
(*             against the clock; WaitFairSpec adds that the main thread   *)
(*             keeps running.                                              *)
(***************************************************************************)
EXTENDS Integers, Sequences, FiniteSets, TLC

VARIABLES
    chunks,          \* RIFFParser.chunks: chunk id -> payload bytes
    zlib_out,        \* what zlib.decompress yields on the 'stri' payload
    gen,             \* how the container under test was built (never changes)
    state,           \* "new", "ready" (constructed) or "failed" (__init__ raised)
    error,           \* the exception __init__ raised
    format_version,  \* IdxFileParser.format_version
    strategy,        \* IdxFileParser.strategy (the class selected)
    string_table,    \* IdxFileParser.string_table: [built, strings]
    op,              \* the decoder call in progress or last made
    pos,             \* f.tell() of that call's BytesIO
    acc,             \* the records that call has collected so far
    ret,             \* how the call ended: [status, exc, value]
    file,            \* the bytes of the file at file_path
    f_tell,          \* f.tell() of the file RIFFParser._parse has open
    file_size,       \* the total-size field RIFFParser._parse read
    riff_chunks,     \* RIFFParser.chunks while _parse fills it (a dict)
    riff_state,      \* where _parse is: "header", "chunks" or "done"
    applied,         \* a function of the decoder applied on its own: its arguments
    outcome,         \* what that function returned or raised
    first_call,      \* history: how the first call of each decoder ended
    pc,              \* generator: where each thread is in its code
    local,           \* generator: the local variables of each thread
    inbox,           \* generator: what clangd has written for each reader thread
    process,         \* ClangdIndexGenerator.process: the clangd child process
    stdin,           \* what has been written to process.stdin, in order
    stdin_lock,      \* ClangdIndexGenerator.stdin_lock: the thread holding it
    request_id,      \* ClangdIndexGenerator.request_id
    log_file_handle, \* ClangdIndexGenerator.log_file_handle
    files_with_errors, \* ClangdIndexGenerator.files_with_errors
    attributed,      \* history: the errors each thread has counted for each file
    indexing_complete, \* ClangdIndexGenerator.indexing_complete
    indexed_files,   \* ClangdIndexGenerator.indexed_files
    since_start_time, \* time.time() - start_time of wait_for_indexing_completion
    since_last_indexing_activity, \* time.time() - self.last_indexing_activity
    since_final_wait_start \* time.time() - final_wait_start

\* The variables of RIFFParser._parse and those of a function applied alone.
riff_vars == <<file, f_tell, file_size, riff_chunks, riff_state>>
unit_vars == <<applied, outcome>>

\* The variables of the index viewer: the parser, the file reader, the history.
parser_vars ==
    <<chunks, zlib_out, gen, state, error, format_version, strategy, string_table,
      op, pos, acc, ret, riff_vars, unit_vars, first_call>>

\* The variables of ClangdIndexGenerator and its threads.
generator_vars ==
    <<pc, local, inbox, process, stdin, stdin_lock, request_id, log_file_handle,
      files_with_errors, attributed, indexing_complete, indexed_files,
      since_start_time, since_last_indexing_activity, since_final_wait_start>>

vars == <<chunks, zlib_out, gen, state, error, format_version, strategy,
          string_table, op, pos, acc, ret, file, f_tell, file_size,
          riff_chunks, riff_state, applied, outcome, first_call, generator_vars>>

(***************************************************************************)
(* Program constants                                                       *)
(***************************************************************************)
IdLen == 8
VersionLen == 4
NoVersion == -1
ReplacementChar == 65533

(***************************************************************************)
(* Bounds of the model                                                     *)
(***************************************************************************)
MaxRawLen == 3
MaxBlobLen == 3
MaxRecs == 1
MaxRelaLen == 35
MaxChunks == 2
MaxPayloadLen == 2
MaxVarintLen == 3

Min(a, b) == IF a < b THEN a ELSE b

RECURSIVE Concat(_)
Concat(ss) == IF Len(ss) = 0 THEN <<>> ELSE Head(ss) \o Concat(Tail(ss))

RECURSIVE SeqsUpTo(_, _)
SeqsUpTo(S, n) ==
    IF n = 0 THEN {<<>>}
    ELSE LET shorter == SeqsUpTo(S, n - 1)
         IN  shorter \cup {Append(s, x) : s \in shorter, x \in S}

(***************************************************************************)
(* Streams and exceptions                                                  *)
(*                                                                         *)
(* A reader state is [pos, err, vals]: the cursor of the BytesIO, the      *)
(* exception that is propagating ("none" when none is) and the values the  *)
(* reads of the current record have produced so far, oldest first.  Every  *)
(* read leaves a state in which an exception propagates as it is.          *)
(***************************************************************************)
NoError == "none"

\* The reader state at the start of a record: cursor p, nothing raised.
At(p) == [pos |-> p, err |-> NoError, vals |-> <<>>]

Push(s, p, v) == [pos |-> p, err |-> NoError, vals |-> Append(s.vals, v)]
Throw(s, p, e) == [pos |-> p, err |-> e, vals |-> s.vals]

\* The i-th value from the end of vals, and vals without its last n values.
Top(s, i) == s.vals[Len(s.vals) + 1 - i]
Pop(s, n) == SubSeq(s.vals, 1, Len(s.vals) - n)

\* io.BytesIO.read(n): the next n bytes, or as many as are left.
BytesIO_read_unclamped(buf, p, n) ==
    [bytes |-> SubSeq(buf, p + 1, Min(p + n, Len(buf))), pos |-> p + n]

BytesIO_read(buf, p, n) ==
    [bytes |-> SubSeq(buf, p + 1, Min(p + n, Len(buf))),
     pos   |-> Min(p + n, Len(buf))]

\* x = f.read(n): never raises, may return fewer than n bytes.
f_read_got(s, r) == Push(s, r.pos, r.bytes)
f_read(buf, s, n) ==
    IF s.err # NoError THEN s ELSE f_read_got(s, BytesIO_read(buf, s.pos, n))

\* x = f.read(1)[0]: IndexError when no byte is left.
f_read_byte_got(s, r) ==
    IF Len(r.bytes) = 0 THEN Throw(s, r.pos, "IndexError")
    ELSE Push(s, r.pos, r.bytes[1])
f_read_byte(buf, s) ==
    IF s.err # NoError THEN s ELSE f_read_byte_got(s, BytesIO_read(buf, s.pos, 1))

\* The loop of VarintReader.read_varint: byte is what f.read(1) returned,
\* mult is 2^shift.
RECURSIVE varint_loop(_, _, _, _)
\* The loop body with `break` where line 206 raises.
varint_byte_break_at_end(buf, s, byte, result, mult) ==
    IF Len(byte.bytes) = 0 THEN Push(s, byte.pos, result)
    ELSE IF byte.bytes[1] \div 128 = 0
    THEN Push(s, byte.pos, result + (byte.bytes[1] % 128) * mult)
    ELSE varint_loop(buf, [s EXCEPT !.pos = byte.pos],
                     result + (byte.bytes[1] % 128) * mult, mult * 128)

varint_byte(buf, s, byte, result, mult) ==
    IF Len(byte.bytes) = 0 THEN Throw(s, byte.pos, "EOFError")
    ELSE IF byte.bytes[1] \div 128 = 0
    THEN Push(s, byte.pos, result + (byte.bytes[1] % 128) * mult)
    ELSE varint_loop(buf, [s EXCEPT !.pos = byte.pos],
                     result + (byte.bytes[1] % 128) * mult, mult * 128)
varint_loop(buf, s, result, mult) ==
    varint_byte(buf, s, BytesIO_read(buf, s.pos, 1), result, mult)

read_varint(buf, s) ==
    IF s.err # NoError THEN s ELSE varint_loop(buf, s, 0, 1)

\* struct.unpack('<I', data)[0]: struct.error unless data holds 4 bytes.
struct_unpack_I(data) ==
    IF Len(data) # VersionLen
    THEN [err |-> "struct.error", val |-> 0]
    ELSE [err |-> NoError,
          val |-> data[1] + 256 * data[2] + 65536 * data[3] + 16777216 * data[4]]

(***************************************************************************)
(* StringTable                                                             *)
(***************************************************************************)
\* bytes.decode('utf-8', errors='replace') on the bytes the model draws:
\* ASCII decodes to itself, a byte that can start no UTF-8 sequence
\* (0xF8..0xFF) to U+FFFD.
utf8_decode(bs) ==
    [i \in 1..Len(bs) |-> IF bs[i] < 128 THEN bs[i] ELSE ReplacementChar]

RECURSIVE parse_strings_loop(_, _, _, _)
parse_strings_loop(data, i, strings, current) ==
    IF i > Len(data)
    THEN IF Len(current) > 0 THEN Append(strings, utf8_decode(current)) ELSE strings
    ELSE IF data[i] = 0
         THEN parse_strings_loop(data, i + 1, Append(strings, utf8_decode(current)), <<>>)
         ELSE parse_strings_loop(data, i + 1, strings, Append(current, data[i]))

_parse_strings(data) == parse_strings_loop(data, 1, <<>>, <<>>)

StringTable_get(strings, index) ==
    IF 0 <= index /\ index < Len(strings) THEN strings[index + 1] ELSE <<>>

\* StringTable.__init__ without the size comparison of line 230.
StringTable_init_unchecked(data, z) ==
    LET size == struct_unpack_I(SubSeq(data, 1, Min(VersionLen, Len(data))))
        rest == SubSeq(data, VersionLen + 1, Len(data))
    IN  IF size.err # NoError
        THEN [err |-> "struct.error", msg |-> "", arg |-> 0, strings |-> <<>>]
        ELSE IF size.val = 0
        THEN [err |-> NoError, msg |-> "", arg |-> 0, strings |-> _parse_strings(rest)]
        ELSE IF ~z.ok
        THEN [err |-> "ValueError", msg |-> "Failed to decompress string table",
              arg |-> 0, strings |-> <<>>]
        ELSE [err |-> NoError, msg |-> "", arg |-> 0, strings |-> _parse_strings(z.data)]

\* StringTable.__init__(data); z is the outcome of zlib.decompress(data[4:]).
StringTable_init(data, z) ==
    LET size == struct_unpack_I(SubSeq(data, 1, Min(VersionLen, Len(data))))
        rest == SubSeq(data, VersionLen + 1, Len(data))
    IN  IF size.err # NoError
        THEN [err |-> "struct.error", msg |-> "", arg |-> 0, strings |-> <<>>]
        ELSE IF size.val = 0
        THEN [err |-> NoError, msg |-> "", arg |-> 0, strings |-> _parse_strings(rest)]
        ELSE IF ~z.ok
        THEN [err |-> "ValueError", msg |-> "Failed to decompress string table",
              arg |-> 0, strings |-> <<>>]
        ELSE IF Len(z.data) # size.val
        THEN [err |-> "ValueError", msg |-> "Decompressed size mismatch",
              arg |-> size.val, strings |-> <<>>]
        ELSE [err |-> NoError, msg |-> "", arg |-> 0, strings |-> _parse_strings(z.data)]

(***************************************************************************)
(* The IntEnum classes of the record fields                                *)
(*                                                                         *)
(* A member is the int it stands for.  Cls(value) looks value up among the *)
(* members and calls _missing_ when it is not one of them; the outcome is  *)
(* [err, val].                                                             *)
(***************************************************************************)
Member(value) == [err |-> NoError, val |-> value]

\* Enum._missing_ as inherited: it returns None and Cls(value) raises.
IntEnum_missing_inherited(value) == [err |-> "ValueError", val |-> value]

\* SymbolKind._missing_: a pseudo-member Unknown_<value> with that value.
SymbolKind_missing(value) == Member(value)
SymbolKind_members == 0..30
SymbolKind(value) ==
    IF value \in SymbolKind_members THEN Member(value) ELSE SymbolKind_missing(value)

SymbolLanguage_missing(value) == Member(value)
SymbolLanguage_members == 0..3
SymbolLanguage(value) ==
    IF value \in SymbolLanguage_members THEN Member(value)
    ELSE SymbolLanguage_missing(value)

\* RefKind: Unknown, Declaration, Definition, Reference, Spelled, Call, All.
RefKind_missing(value) == Member(value)
RefKind_members == {0, 1, 2, 4, 8, 16, 15}
RefKind(value) ==
    IF value \in RefKind_members THEN Member(value) ELSE RefKind_missing(value)

RelationKind_missing(value) == Member(value)
RelationKind_members == {0, 1}
RelationKind(value) ==
    IF value \in RelationKind_members THEN Member(value)
    ELSE RelationKind_missing(value)

\* x = Cls(x): the value read last is replaced by the member, or Cls raises.
IntEnum_got(s, member) ==
    IF member.err # NoError THEN Throw(s, s.pos, member.err)
    ELSE [s EXCEPT !.vals = Append(Pop(s, 1), member.val)]

SymbolKind_of(s) == IF s.err # NoError THEN s ELSE IntEnum_got(s, SymbolKind(Top(s, 1)))
SymbolLanguage_of(s) ==
    IF s.err # NoError THEN s ELSE IntEnum_got(s, SymbolLanguage(Top(s, 1)))
RefKind_of(s) == IF s.err # NoError THEN s ELSE IntEnum_got(s, RefKind(Top(s, 1)))
RelationKind_of(s) ==
    IF s.err # NoError THEN s ELSE IntEnum_got(s, RelationKind(Top(s, 1)))

(***************************************************************************)
(* Version strategies                                                      *)
(***************************************************************************)
NoLocation ==
    [present |-> FALSE, file_uri |-> <<>>, start_line |-> 0, start_column |-> 0,
     end_line |-> 0, end_column |-> 0]

NoContainer == [some |-> FALSE, bytes |-> <<>>]

\* SymbolLocation(file_uri=string_table.get(file_uri_idx), ...) from the five
\* varints read last.
SymbolLocation(s, strings) ==
    IF s.err # NoError THEN s
    ELSE [s EXCEPT !.vals = Append(Pop(s, 5),
            [present      |-> TRUE,
             file_uri     |-> StringTable_get(strings, Top(s, 5)),
             start_line   |-> Top(s, 4),
             start_column |-> Top(s, 3),
             end_line     |-> Top(s, 2),
             end_column   |-> Top(s, 1)])]

Format12Strategy_read_location(buf, s, strings) ==
    LET file_uri_idx == read_varint(buf, s)
        start_line   == read_varint(buf, file_uri_idx)
        start_column == read_varint(buf, start_line)
        end_line     == read_varint(buf, start_column)
        end_column   == read_varint(buf, end_line)
    IN  SymbolLocation(end_column, strings)

Format13To17Strategy_read_location(buf, s, strings) ==
    LET file_uri_idx == read_varint(buf, s)
        start_line   == read_varint(buf, file_uri_idx)
        start_column == read_varint(buf, start_line)
        end_line     == read_varint(buf, start_column)
        end_column   == read_varint(buf, end_line)
    IN  SymbolLocation(end_column, strings)

Format18PlusStrategy_read_location(buf, s, strings) ==
    LET file_uri_idx == read_varint(buf, s)
        start_line   == read_varint(buf, file_uri_idx)
        start_column == read_varint(buf, start_line)
        end_line     == read_varint(buf, start_column)
        end_column   == read_varint(buf, end_line)
    IN  SymbolLocation(end_column, strings)

\* Reference(kind=kind, location=location, container=None)
Reference_without_container(s) ==
    IF s.err # NoError THEN s
    ELSE [s EXCEPT !.vals = Append(Pop(s, 2),
            [kind |-> Top(s, 2), location |-> Top(s, 1), container |-> NoContainer])]

\* Reference(kind=kind, location=location, container=container)
Reference_with_container(s) ==
    IF s.err # NoError THEN s
    ELSE [s EXCEPT !.vals = Append(Pop(s, 3),
            [kind |-> Top(s, 3), location |-> Top(s, 2),
             container |-> [some |-> TRUE, bytes |-> Top(s, 1)]])]

\* Format12Strategy.parse_ref reading a container id as the later formats do.
Format12Strategy_parse_ref_with_container(buf, s, strings) ==
    LET kind      == RefKind_of(f_read_byte(buf, s))
        location  == Format12Strategy_read_location(buf, kind, strings)
        container == f_read(buf, location, IdLen)
    IN  Reference_with_container(container)

Format12Strategy_parse_ref(buf, s, strings) ==
    LET kind     == RefKind_of(f_read_byte(buf, s))
        location == Format12Strategy_read_location(buf, kind, strings)
    IN  Reference_without_container(location)

Format13To17Strategy_parse_ref(buf, s, strings) ==
    LET kind      == RefKind_of(f_read_byte(buf, s))
        location  == Format13To17Strategy_read_location(buf, kind, strings)
        container == f_read(buf, location, IdLen)
    IN  Reference_with_container(container)

Format18PlusStrategy_parse_ref(buf, s, strings) ==
    LET kind      == RefKind_of(f_read_byte(buf, s))
        location  == Format18PlusStrategy_read_location(buf, kind, strings)
        container == f_read(buf, location, IdLen)
    IN  Reference_with_container(container)

\* IncludeDirective.Include
Include == 1

\* IncludeHeaderWithReferences(header, references, IncludeDirective.Include)
IncludeHeader_plain(s, strings) ==
    IF s.err # NoError THEN s
    ELSE [s EXCEPT !.vals = Append(Pop(s, 2),
            [header |-> StringTable_get(strings, Top(s, 2)),
             references |-> Top(s, 1),
             supported_directives |-> Include])]

\* The two parts of the packed value taken the wrong way round.
IncludeHeader_packed_swapped(s, strings) ==
    IF s.err # NoError THEN s
    ELSE [s EXCEPT !.vals = Append(Pop(s, 2),
            [header |-> StringTable_get(strings, Top(s, 2)),
             references |-> Top(s, 1) % 4,
             supported_directives |-> Top(s, 1) \div 4])]

\* IncludeHeaderWithReferences(header, packed >> 2, packed & 0x3)
IncludeHeader_packed(s, strings) ==
    IF s.err # NoError THEN s
    ELSE [s EXCEPT !.vals = Append(Pop(s, 2),
            [header |-> StringTable_get(strings, Top(s, 2)),
             references |-> Top(s, 1) \div 4,
             supported_directives |-> Top(s, 1) % 4])]

Format12Strategy_parse_include_header(buf, s, strings) ==
    LET header_idx == read_varint(buf, s)
        references == read_varint(buf, header_idx)
    IN  IncludeHeader_plain(references, strings)

Format13To17Strategy_parse_include_header(buf, s, strings) ==
    LET header_idx == read_varint(buf, s)
        references == read_varint(buf, header_idx)
    IN  IncludeHeader_plain(references, strings)

Format18PlusStrategy_parse_include_header(buf, s, strings) ==
    LET header_idx == read_varint(buf, s)
        packed     == read_varint(buf, header_idx)
    IN  IncludeHeader_packed(packed, strings)

\* self.strategy.parse_ref(f, self.string_table)
strategy_parse_ref(strat, buf, s, strings) ==
    CASE strat = "Format12Strategy"     -> Format12Strategy_parse_ref(buf, s, strings)
      [] strat = "Format13To17Strategy" -> Format13To17Strategy_parse_ref(buf, s, strings)
      [] strat = "Format18PlusStrategy" -> Format18PlusStrategy_parse_ref(buf, s, strings)

\* self.strategy.parse_include_header(f, self.string_table)
strategy_parse_include_header(strat, buf, s, strings) ==
    CASE strat = "Format12Strategy" ->
            Format12Strategy_parse_include_header(buf, s, strings)
      [] strat = "Format13To17Strategy" ->
            Format13To17Strategy_parse_include_header(buf, s, strings)
      [] strat = "Format18PlusStrategy" ->
            Format18PlusStrategy_parse_include_header(buf, s, strings)

(***************************************************************************)
(* IdxFileParser: one record of each chunk                                 *)
(***************************************************************************)
\* What _read_location returns after its five varints: None when the file
\* index is 0, else the SymbolLocation.
Optional_SymbolLocation(s, strings) ==
    IF s.err # NoError THEN s
    ELSE IF Top(s, 5) = 0 THEN [s EXCEPT !.vals = Append(Pop(s, 5), NoLocation)]
    ELSE SymbolLocation(s, strings)

IdxFileParser_read_location(buf, s, strings) ==
    LET file_uri_idx == read_varint(buf, s)
        start_line   == read_varint(buf, file_uri_idx)
        start_column == read_varint(buf, start_line)
        end_line     == read_varint(buf, start_column)
        end_column   == read_varint(buf, end_line)
    IN  Optional_SymbolLocation(end_column, strings)

\* x = []: an empty list is the newest value.
NewList(s) == IF s.err # NoError THEN s ELSE Push(s, s.pos, <<>>)

\* x.append(item), item being the newest value and x the one before it.
ListAppend(s) ==
    IF s.err # NoError THEN s
    ELSE [s EXCEPT !.vals = Append(Pop(s, 2), Append(Top(s, 2), Top(s, 1)))]

\* for _ in range(n): include_headers.append(parse_include_header(..))
RECURSIVE include_headers_loop(_, _, _, _, _)
include_headers_loop(buf, s, n, strat, strings) ==
    IF s.err # NoError \/ n <= 0 THEN s
    ELSE include_headers_loop(
            buf, ListAppend(strategy_parse_include_header(strat, buf, s, strings)),
            n - 1, strat, strings)

\* include_headers = [] and the loop over range(include_count), include_count
\* being the newest value.
include_headers_of(buf, s, strat, strings) ==
    IF s.err # NoError THEN s
    ELSE include_headers_loop(buf, NewList(s), Top(s, 1), strat, strings)

\* Symbol(id=symbol_id, ..., include_headers=include_headers)
Symbol(s, strings) ==
    IF s.err # NoError THEN s
    ELSE [s EXCEPT !.vals = <<
            [id |-> s.vals[1],
             kind |-> s.vals[2],
             language |-> s.vals[3],
             name |-> StringTable_get(strings, s.vals[4]),
             scope |-> StringTable_get(strings, s.vals[5]),
             template_specialization_args |-> StringTable_get(strings, s.vals[6]),
             definition |-> s.vals[7],
             canonical_declaration |-> s.vals[8],
             references |-> s.vals[9],
             flags |-> s.vals[10],
             signature |-> StringTable_get(strings, s.vals[11]),
             completion_snippet_suffix |-> StringTable_get(strings, s.vals[12]),
             documentation |-> StringTable_get(strings, s.vals[13]),
             return_type |-> StringTable_get(strings, s.vals[14]),
             type |-> StringTable_get(strings, s.vals[15]),
             include_headers |-> s.vals[17]] >>]

\* _parse_symbol reading the flags byte before the reference count.
_parse_symbol_flags_first(buf, p, strat, strings) ==
    LET symbol_id             == f_read(buf, At(p), IdLen)
        kind                  == SymbolKind_of(f_read_byte(buf, symbol_id))
        language              == SymbolLanguage_of(f_read_byte(buf, kind))
        name_idx              == read_varint(buf, language)
        scope_idx             == read_varint(buf, name_idx)
        template_args_idx     == read_varint(buf, scope_idx)
        definition            == IdxFileParser_read_location(buf, template_args_idx, strings)
        canonical_declaration == IdxFileParser_read_location(buf, definition, strings)
        flags                 == f_read_byte(buf, canonical_declaration)
        references            == read_varint(buf, flags)
        signature_idx         == read_varint(buf, references)
        snippet_idx           == read_varint(buf, signature_idx)
        documentation_idx     == read_varint(buf, snippet_idx)
        return_type_idx       == read_varint(buf, documentation_idx)
        type_idx              == read_varint(buf, return_type_idx)
        include_count         == read_varint(buf, type_idx)
        include_headers       == include_headers_of(buf, include_count, strat, strings)
    IN  Symbol(include_headers, strings)

_parse_symbol(buf, p, strat, strings) ==
    LET symbol_id             == f_read(buf, At(p), IdLen)
        kind                  == SymbolKind_of(f_read_byte(buf, symbol_id))
        language              == SymbolLanguage_of(f_read_byte(buf, kind))
        name_idx              == read_varint(buf, language)
        scope_idx             == read_varint(buf, name_idx)
        template_args_idx     == read_varint(buf, scope_idx)
        definition            == IdxFileParser_read_location(buf, template_args_idx, strings)
        canonical_declaration == IdxFileParser_read_location(buf, definition, strings)
        references            == read_varint(buf, canonical_declaration)
        flags                 == f_read_byte(buf, references)
        signature_idx         == read_varint(buf, flags)
        snippet_idx           == read_varint(buf, signature_idx)
        documentation_idx     == read_varint(buf, snippet_idx)
        return_type_idx       == read_varint(buf, documentation_idx)
        type_idx              == read_varint(buf, return_type_idx)
        include_count         == read_varint(buf, type_idx)
        include_headers       == include_headers_of(buf, include_count, strat, strings)
    IN  Symbol(include_headers, strings)

\* for _ in range(n): refs.append(self.strategy.parse_ref(..))
RECURSIVE refs_loop(_, _, _, _, _)
refs_loop(buf, s, n, strat, strings) ==
    IF s.err # NoError \/ n <= 0 THEN s
    ELSE refs_loop(buf, ListAppend(strategy_parse_ref(strat, buf, s, strings)),
                   n - 1, strat, strings)

\* refs = [] and the loop over range(ref_count), ref_count being the newest value.
refs_of(buf, s, strat, strings) ==
    IF s.err # NoError THEN s
    ELSE refs_loop(buf, NewList(s), Top(s, 1), strat, strings)

\* The pair the try block of parse_refs stores: refs_by_symbol[symbol_id] = refs.
RefsItem(s) ==
    IF s.err # NoError THEN s
    ELSE [s EXCEPT !.vals = << [symbol_id |-> s.vals[1], refs |-> s.vals[3]] >>]

\* The body of the try block of parse_refs.
_parse_refs_group(buf, p, strat, strings) ==
    LET symbol_id == f_read(buf, At(p), IdLen)
        ref_count == read_varint(buf, symbol_id)
        refs      == refs_of(buf, ref_count, strat, strings)
    IN  RefsItem(refs)

\* Relation(subject=subject, predicate=predicate, object=object_id)
Relation(s) ==
    IF s.err # NoError THEN s
    ELSE [s EXCEPT !.vals = << [subject |-> s.vals[1], predicate |-> s.vals[2],
                                object |-> s.vals[3]] >>]

\* The body of the try block of parse_relations.
_parse_relation(buf, p) ==
    LET subject   == f_read(buf, At(p), IdLen)
        predicate == RelationKind_of(f_read_byte(buf, subject))
        object_id == f_read(buf, predicate, IdLen)
    IN  Relation(object_id)

\* x.append(self.string_table.get(idx)), idx being the newest value.
ListAppendString(s, strings) ==
    IF s.err # NoError THEN s
    ELSE [s EXCEPT !.vals = Append(Pop(s, 2),
            Append(Top(s, 2), StringTable_get(strings, Top(s, 1))))]

\* for _ in range(n): x.append(self.string_table.get(read_varint(f)))
RECURSIVE strings_loop(_, _, _, _)
strings_loop(buf, s, n, strings) ==
    IF s.err # NoError \/ n <= 0 THEN s
    ELSE strings_loop(buf, ListAppendString(read_varint(buf, s), strings), n - 1, strings)

\* x = [] and the loop over range(count), count being the newest value.
strings_of(buf, s, strings) ==
    IF s.err # NoError THEN s
    ELSE strings_loop(buf, NewList(s), Top(s, 1), strings)

\* IncludeGraphNode(flags, uri, digest, direct_includes)
IncludeGraphNode(s, strings) ==
    IF s.err # NoError THEN s
    ELSE [s EXCEPT !.vals = << [flags |-> s.vals[1],
                                uri |-> StringTable_get(strings, s.vals[2]),
                                digest |-> s.vals[3],
                                direct_includes |-> s.vals[5]] >>]

\* The body of the try block of parse_sources.
_parse_source(buf, p, strings) ==
    LET flags         == f_read_byte(buf, At(p))
        uri_idx       == read_varint(buf, flags)
        digest        == f_read(buf, uri_idx, IdLen)
        include_count == read_varint(buf, digest)
        includes      == strings_of(buf, include_count, strings)
    IN  IncludeGraphNode(includes, strings)

\* (self.string_table.get(directory_idx), cmd_args)
CompileCommand(s, strings) ==
    IF s.err # NoError THEN s
    ELSE [s EXCEPT !.vals = << [some |-> TRUE,
                                directory |-> StringTable_get(strings, s.vals[1]),
                                arguments |-> s.vals[3]] >>]

\* The with block of parse_command.
_parse_command(buf, strings) ==
    LET directory_idx == read_varint(buf, At(0))
        cmd_count     == read_varint(buf, directory_idx)
        cmd_args      == strings_of(buf, cmd_count, strings)
    IN  CompileCommand(cmd_args, strings)

(***************************************************************************)
(* RIFFParser.chunks and IdxFileParser._initialize                         *)
(***************************************************************************)
ChunkIds == {"meta", "stri", "symb", "refs", "rela", "srcs", "cmdl"}

\* An Optional[bytes]: None is [some |-> FALSE].
None == [some |-> FALSE, data |-> <<>>]
Some(data) == [some |-> TRUE, data |-> data]

\* RIFFParser.get_chunk: self.chunks.get(chunk_id)
get_chunk_with_fallback(cs, chunk_id) ==
    IF cs[chunk_id].some THEN cs[chunk_id] ELSE cs["stri"]

get_chunk(cs, chunk_id) == cs[chunk_id]

\* Python's `not x` for an Optional[bytes]: None and b'' are both falsy.
not_(x) == ~x.some \/ Len(x.data) = 0

\* The if/elif chain of _initialize; "None" when the else branch raises.
select_strategy_wide(v) ==
    IF v = 12 THEN "Format12Strategy"
    ELSE IF 13 <= v /\ v <= 17 THEN "Format13To17Strategy"
    ELSE IF 18 <= v THEN "Format18PlusStrategy"
    ELSE "None"

select_strategy(v) ==
    IF v = 12 THEN "Format12Strategy"
    ELSE IF 13 <= v /\ v <= 17 THEN "Format13To17Strategy"
    ELSE IF 18 <= v /\ v <= 20 THEN "Format18PlusStrategy"
    ELSE "None"

NoException == [type |-> NoError, msg |-> "", arg |-> 0]
NoTable == [built |-> FALSE, strings |-> <<>>]

_initialize(cs, z) ==
    LET meta_data == get_chunk(cs, "meta")
        version   == struct_unpack_I(SubSeq(meta_data.data, 1,
                                            Min(VersionLen, Len(meta_data.data))))
        strat     == select_strategy(version.val)
        stri_data == get_chunk(cs, "stri")
        table     == StringTable_init(stri_data.data, z)
        Raise(type, msg, arg, fv, st) ==
            [state |-> "failed", error |-> [type |-> type, msg |-> msg, arg |-> arg],
             format_version |-> fv, strategy |-> st, string_table |-> NoTable]
    IN  IF not_(meta_data)
        THEN Raise("ValueError", "Missing required 'meta' chunk", 0, NoVersion, "None")
        ELSE IF version.err # NoError
        THEN Raise(version.err, "", 0, NoVersion, "None")
        ELSE IF strat = "None"
        THEN Raise("ValueError", "Unsupported format version", version.val,
                   version.val, "None")
        ELSE IF not_(stri_data)
        THEN Raise("ValueError", "Missing required 'stri' chunk", 0, version.val, strat)
        ELSE IF table.err # NoError
        THEN Raise(table.err, table.msg, table.arg, version.val, strat)
        ELSE [state |-> "ready", error |-> NoException,
              format_version |-> version.val, strategy |-> strat,
              string_table |-> [built |-> TRUE, strings |-> table.strings]]

\* refs_by_symbol[symbol_id] = refs on a dict kept as its items in insertion order.
dict_set_keep_first(d, k, v) ==
    IF \E i \in 1..Len(d) : d[i].key = k
    THEN d
    ELSE Append(d, [key |-> k, value |-> v])

dict_set(d, k, v) ==
    IF \E i \in 1..Len(d) : d[i].key = k
    THEN [i \in 1..Len(d) |-> IF d[i].key = k THEN [key |-> k, value |-> v] ELSE d[i]]
    ELSE Append(d, [key |-> k, value |-> v])

(***************************************************************************)
(* RIFFParser._parse                                                       *)
(*                                                                         *)
(* The file object is read like a BytesIO: f.read(n) returns the next n    *)
(* bytes or as many as are left.  A str key of self.chunks is the sequence *)
(* of its code points.                                                     *)
(***************************************************************************)
RiffHeaderLen == 8
FourCCLen == 4

\* b'RIFF' and b'CdIx'
RiffMagic == <<82, 73, 70, 70>>
CdIxType == <<67, 100, 73, 120>>

\* bytes.decode('ascii', errors='ignore'): the bytes above 0x7F are dropped.
IsAscii(b) == b < 128
ascii_decode_ignore(bs) == SelectSeq(bs, IsAscii)

\* The outcome of the header part of _parse.
RiffRaise(type, msg, arg) == [type |-> type, msg |-> msg, arg |-> arg]

riff_type_read(size, type_id) ==
    IF type_id.bytes # CdIxType
    THEN [error |-> RiffRaise("ValueError", "Not a clangd index file", type_id.bytes),
          file_size |-> size.val, pos |-> type_id.pos]
    ELSE [error |-> NoException, file_size |-> size.val, pos |-> type_id.pos]

riff_size_read(f, size_bytes, size) ==
    IF size.err # NoError
    THEN [error |-> RiffRaise(size.err, "", 0), file_size |-> 0, pos |-> size_bytes.pos]
    ELSE riff_type_read(size, BytesIO_read(f, size_bytes.pos, FourCCLen))

riff_size_bytes_read(f, size_bytes) ==
    riff_size_read(f, size_bytes, struct_unpack_I(size_bytes.bytes))

riff_magic_read(f, magic) ==
    IF magic.bytes # RiffMagic
    THEN [error |-> RiffRaise("ValueError", "Not a RIFF file", magic.bytes),
          file_size |-> 0, pos |-> magic.pos]
    ELSE riff_size_bytes_read(f, BytesIO_read(f, magic.pos, VersionLen))

\* Lines 383-390: magic, total size, type tag.
riff_read_header(f) == riff_magic_read(f, BytesIO_read(f, 0, FourCCLen))

\* The padding read of lines 406-407 that is left out.
riff_skip_padding_never(f, chunk_size, p) == p

\* Lines 406-407: one more byte is read after a payload of odd length.
riff_skip_padding(f, chunk_size, p) ==
    IF chunk_size % 2 # 0 THEN BytesIO_read(f, p, 1).pos ELSE p

\* The body of the while loop once chunk_id, chunk_size and chunk_data are read.
riff_store_chunk(f, d, chunk_id, size, chunk_data) ==
    [brk |-> FALSE, err |-> NoError,
     chunks |-> dict_set(d, ascii_decode_ignore(chunk_id.bytes), chunk_data.bytes),
     pos |-> riff_skip_padding(f, size.val, chunk_data.pos)]

riff_chunk_size_read(f, d, chunk_id, size_bytes, size) ==
    IF size.err # NoError
    THEN [brk |-> FALSE, err |-> size.err, chunks |-> d, pos |-> size_bytes.pos]
    ELSE riff_store_chunk(f, d, chunk_id, size,
                          BytesIO_read(f, size_bytes.pos, size.val))

riff_chunk_size_bytes_read(f, d, chunk_id, size_bytes) ==
    riff_chunk_size_read(f, d, chunk_id, size_bytes, struct_unpack_I(size_bytes.bytes))

riff_chunk_id_read(f, d, chunk_id) ==
    IF Len(chunk_id.bytes) = 0
    THEN [brk |-> TRUE, err |-> NoError, chunks |-> d, pos |-> chunk_id.pos]
    ELSE riff_chunk_size_bytes_read(f, d, chunk_id,
                                    BytesIO_read(f, chunk_id.pos, VersionLen))

\* Lines 394-407: one pass of the loop with the cursor at p and the dict d.
riff_read_chunk(f, d, p) == riff_chunk_id_read(f, d, BytesIO_read(f, p, FourCCLen))

\* dict.get(k): the value stored under k, or None.
dict_get(d, k) ==
    IF \E i \in 1..Len(d) : d[i].key = k
    THEN Some(d[CHOOSE i \in 1..Len(d) : d[i].key = k].value)
    ELSE None

\* The str chunk ids the decoders ask for, as code points.
ChunkIdText(c) ==
    CASE c = "meta" -> <<109, 101, 116, 97>>
      [] c = "stri" -> <<115, 116, 114, 105>>
      [] c = "symb" -> <<115, 121, 109, 98>>
      [] c = "refs" -> <<114, 101, 102, 115>>
      [] c = "rela" -> <<114, 101, 108, 97>>
      [] c = "srcs" -> <<115, 114, 99, 115>>
      [] c = "cmdl" -> <<99, 109, 100, 108>>

\* What get_chunk answers for each id the decoders ask for, given the dict.
chunk_map(d) == [c \in ChunkIds |-> dict_get(d, ChunkIdText(c))]

(***************************************************************************)
(* The containers the model is run on                                      *)
(***************************************************************************)
LE32(v) == <<v % 256, (v \div 256) % 256, (v \div 65536) % 256, (v \div 16777216) % 256>>

RECURSIVE EncVarint(_)
EncVarint(n) == IF n < 128 THEN <<n>> ELSE <<128 + (n % 128)>> \o EncVarint(n \div 128)

IdBytes(seed) == [i \in 1..IdLen |-> 16 * seed + i]

EncLoc(l) == Concat([i \in 1..5 |-> EncVarint(l[i])])

\* Symbol records as written by the producer: string fields are indices,
\* a location is <<file index, start line, start column, end line, end column>>,
\* an include header is <<header index, value>>.
SymA == [id |-> IdBytes(1), kind |-> 12, language |-> 2,
         name |-> 2, scope |-> 0, targs |-> 0,
         def |-> <<0, 5, 300, 7, 8>>, decl |-> <<1, 3, 4, 3, 9>>,
         references |-> 5, flags |-> 1,
         sig |-> 0, snip |-> 0, doc |-> 0, rtype |-> 0, type |-> 1,
         incs |-> << <<1, 14>> >>]
SymB == [id |-> IdBytes(2), kind |-> 200, language |-> 9,
         name |-> 130, scope |-> 1, targs |-> 0,
         def |-> <<0, 0, 0, 0, 0>>, decl |-> <<0, 0, 0, 0, 0>>,
         references |-> 0, flags |-> 0,
         sig |-> 0, snip |-> 0, doc |-> 0, rtype |-> 0, type |-> 0,
         incs |-> <<>>]
SymC == [id |-> IdBytes(3), kind |-> 7, language |-> 2,
         name |-> 1, scope |-> 2, targs |-> 0,
         def |-> <<2, 1, 0, 1, 4>>, decl |-> <<2, 1, 0, 1, 4>>,
         references |-> 200, flags |-> 9,
         sig |-> 1, snip |-> 0, doc |-> 2, rtype |-> 0, type |-> 0,
         incs |-> << <<1, 21>>, <<2, 3>> >>]
SymTemplates == {SymA, SymB, SymC}

EncSymbol(r, v) ==
    r.id \o <<r.kind, r.language>>
    \o EncVarint(r.name) \o EncVarint(r.scope) \o EncVarint(r.targs)
    \o EncLoc(r.def) \o EncLoc(r.decl)
    \o EncVarint(r.references) \o <<r.flags>>
    \o EncVarint(r.sig) \o EncVarint(r.snip) \o EncVarint(r.doc)
    \o EncVarint(r.rtype) \o EncVarint(r.type)
    \o EncVarint(Len(r.incs))
    \o Concat([i \in 1..Len(r.incs) |-> EncVarint(r.incs[i][1]) \o EncVarint(r.incs[i][2])])

RefA == [kind |-> 4, loc |-> <<1, 3, 4, 3, 9>>, container |-> IdBytes(6)]
RefZ == [kind |-> 130, loc |-> <<0, 5, 300, 7, 8>>, container |-> IdBytes(7)]

EncRef(r, v) == <<r.kind>> \o EncLoc(r.loc) \o (IF v >= 13 THEN r.container ELSE <<>>)

GrpA == [id |-> IdBytes(1), refs |-> <<RefA>>]
GrpB == [id |-> IdBytes(2), refs |-> <<RefZ, RefA>>]
GrpC == [id |-> IdBytes(3), refs |-> <<>>]
GrpTemplates == {GrpA, GrpB, GrpC}

EncGroup(g, v) ==
    g.id \o EncVarint(Len(g.refs)) \o Concat([i \in 1..Len(g.refs) |-> EncRef(g.refs[i], v)])

NodeA == [flags |-> 1, uri |-> 1, digest |-> IdBytes(4), includes |-> <<2, 1>>]
NodeB == [flags |-> 2, uri |-> 0, digest |-> IdBytes(5), includes |-> <<>>]
NodeTemplates == {NodeA, NodeB}

EncNode(n, v) ==
    <<n.flags>> \o EncVarint(n.uri) \o n.digest \o EncVarint(Len(n.includes))
    \o Concat([i \in 1..Len(n.includes) |-> EncVarint(n.includes[i])])

CmdA == [dir |-> 1, args |-> <<2, 1>>]
CmdB == [dir |-> 0, args |-> <<>>]
CmdC == [dir |-> 130, args |-> <<2>>]
CmdTemplates == {CmdA, CmdB, CmdC}

EncCmd(c, v) ==
    EncVarint(c.dir) \o EncVarint(Len(c.args))
    \o Concat([i \in 1..Len(c.args) |-> EncVarint(c.args[i])])

\* The encoding of a record of the chunk `id`.
Enc(id, r, v) ==
    CASE id = "symb" -> EncSymbol(r, v)
      [] id = "refs" -> EncGroup(r, v)
      [] id = "srcs" -> EncNode(r, v)
      [] id = "cmdl" -> EncCmd(r, v)

Templates(id) ==
    CASE id = "symb" -> SymTemplates
      [] id = "refs" -> GrpTemplates
      [] id = "srcs" -> NodeTemplates
      [] id = "cmdl" -> CmdTemplates

EncAll(id, recs, v) == Concat([i \in 1..Len(recs) |-> Enc(id, recs[i], v)])

\* Bytes of a 'rela' chunk: every position holds a different value.
RelaBytes(seed, L) == [i \in 1..L |-> (seed + 3 * i) % 256]

DecodeVersions == {12, 13, 18}
InitVersions == {0, 11, 12, 13, 15, 17, 18, 19, 20, 21, 268, 16777228}

\* The string pool ["", "a", "b"], stored raw.
PoolBlob == <<0, 97, 0, 98, 0>>
PoolStrings == << <<>>, <<97>>, <<98>> >>

Blobs == SeqsUpTo({0, 97, 255}, MaxBlobLen)
RawChunks == SeqsUpTo({0, 1, 2, 128, 255}, MaxRawLen)

NoZlib == [ok |-> FALSE, data |-> <<>>]
\* A zlib stream; what it decompresses to is zlib_out.
Deflated == <<120, 156>>

Container(meta, stri, id, data) ==
    [c \in ChunkIds |->
        IF c = "meta" THEN meta
        ELSE IF c = "stri" THEN stri
        ELSE IF c = id THEN Some(data)
        ELSE None]

MetaOptions ==
    {None, Some(<<>>), Some(<<12>>), Some(<<12, 0, 0>>), Some(LE32(12) \o <<7, 7>>)}
    \cup {Some(LE32(v)) : v \in InitVersions}

RawStriOptions ==
    {None, Some(<<>>), Some(<<0, 0>>)} \cup {Some(LE32(0) \o b) : b \in Blobs}

\* Containers with every kind of 'meta' and 'stri' chunk and nothing else.
InitFamily ==
    {[chunks |-> Container(m, s, "none", <<>>), zlib_out |-> NoZlib,
      gen |-> [family |-> "init"]] :
        m \in MetaOptions, s \in RawStriOptions}
    \cup
    {[chunks |-> Container(m, Some(LE32(S) \o Deflated), "none", <<>>), zlib_out |-> z,
      gen |-> [family |-> "init"]] :
        m \in MetaOptions, S \in 1..(MaxBlobLen + 1),
        z \in {NoZlib} \cup {[ok |-> TRUE, data |-> b] : b \in Blobs}}

\* Well-formed containers whose chunk `id` holds complete records followed by
\* the first `cut` bytes of one more.
TruncFamily(id) ==
    UNION {
        {[chunks |-> Container(Some(LE32(v)), Some(LE32(0) \o PoolBlob), id,
                               EncAll(id, recs, v) \o SubSeq(Enc(id, tail, v), 1, cut)),
          zlib_out |-> NoZlib,
          gen |-> [family |-> "trunc", id |-> id, version |-> v, recs |-> recs,
                   tail |-> tail, cut |-> cut]] :
            cut \in 0..Len(Enc(id, tail, v))} :
        v \in DecodeVersions,
        recs \in SeqsUpTo(Templates(id), IF id = "cmdl" THEN 0 ELSE MaxRecs),
        tail \in Templates(id)}

\* Well-formed containers with a 'rela' chunk of every length up to MaxRelaLen.
RelaFamily ==
    {[chunks |-> Container(Some(LE32(v)), Some(LE32(0) \o PoolBlob), "rela",
                           RelaBytes(seed, L)),
      zlib_out |-> NoZlib,
      gen |-> [family |-> "rela", id |-> "rela", version |-> v, seed |-> seed,
               len |-> L]] :
        v \in {18}, seed \in {0, 100}, L \in 0..MaxRelaLen}

\* Well-formed containers whose one optional chunk holds arbitrary bytes.
RawFamily ==
    {[chunks |-> Container(Some(LE32(v)), Some(LE32(0) \o PoolBlob), id, data),
      zlib_out |-> NoZlib,
      gen |-> [family |-> "raw", id |-> id, version |-> v]] :
        v \in DecodeVersions, id \in ChunkIds \ {"meta", "stri"}, data \in RawChunks}

\* Well-formed containers with one record whose enum byte takes every value:
\* a Symbol's kind or language, a Reference's kind, a Relation's predicate.
EnumBytes == 0..255
EnumFields ==
    {[field |-> "Symbol.kind", id |-> "symb", version |-> 18],
     [field |-> "Symbol.language", id |-> "symb", version |-> 18],
     [field |-> "Relation.predicate", id |-> "rela", version |-> 18]}
    \cup {[field |-> "Reference.kind", id |-> "refs", version |-> v] : v \in DecodeVersions}

EnumRecord(e, b) ==
    CASE e.field = "Symbol.kind" -> EncSymbol([SymA EXCEPT !.kind = b], e.version)
      [] e.field = "Symbol.language" -> EncSymbol([SymA EXCEPT !.language = b], e.version)
      [] e.field = "Reference.kind" ->
            EncGroup([id |-> IdBytes(1), refs |-> <<[RefA EXCEPT !.kind = b]>>], e.version)
      [] e.field = "Relation.predicate" -> IdBytes(1) \o <<b>> \o IdBytes(2)

EnumFamily ==
    {[chunks |-> Container(Some(LE32(e.version)), Some(LE32(0) \o PoolBlob), e.id,
                           EnumRecord(e, b)),
      zlib_out |-> NoZlib,
      gen |-> [family |-> "enum", id |-> e.id, version |-> e.version,
               field |-> e.field, byte |-> b]] :
        e \in EnumFields, b \in EnumBytes}

\* Well-formed containers holding any subset of the five optional chunks, each
\* with complete records ('refs' with two groups of one symbol id), and the
\* container of all five with a stray byte after the records of each.
OptionalIds == {"symb", "refs", "rela", "srcs", "cmdl"}
GrpD == [id |-> IdBytes(1), refs |-> <<RefZ, RefA>>]

WholeChunk(id, v) ==
    CASE id = "symb" -> EncSymbol(SymC, v) \o EncSymbol(SymB, v)
      [] id = "refs" -> EncGroup(GrpA, v) \o EncGroup(GrpB, v) \o EncGroup(GrpD, v)
      [] id = "rela" -> RelaBytes(0, 34)
      [] id = "srcs" -> EncNode(NodeA, v) \o EncNode(NodeB, v)
      [] id = "cmdl" -> EncCmd(CmdA, v)

SubsetContainer(v, present, stray) ==
    [c \in ChunkIds |->
        IF c = "meta" THEN Some(LE32(v))
        ELSE IF c = "stri" THEN Some(LE32(0) \o PoolBlob)
        ELSE IF c \in present THEN Some(WholeChunk(c, v) \o stray)
        ELSE None]

SubsetFamily ==
    {[chunks |-> SubsetContainer(v, present, <<>>), zlib_out |-> NoZlib,
      gen |-> [family |-> "subset", version |-> v, present |-> present,
               stray |-> <<>>]] :
        v \in DecodeVersions, present \in SUBSET OptionalIds}
    \cup
    {[chunks |-> SubsetContainer(v, OptionalIds, <<200>>), zlib_out |-> NoZlib,
      gen |-> [family |-> "subset", version |-> v, present |-> OptionalIds,
               stray |-> <<200>>]] :
        v \in DecodeVersions}

Inputs ==
    InitFamily \cup RelaFamily \cup RawFamily \cup EnumFamily
    \cup TruncFamily("symb") \cup TruncFamily("refs")
    \cup TruncFamily("srcs") \cup TruncFamily("cmdl")

(***************************************************************************)
(* The files RIFFParser is run on                                          *)
(***************************************************************************)
\* A chunk as it lies in a file: id, length, payload, a padding byte after
\* a payload of odd length.
RiffChunk(id, data) ==
    id \o LE32(Len(data)) \o data \o (IF Len(data) % 2 = 1 THEN <<0>> ELSE <<>>)

\* The payload of the k-th chunk of a file: len bytes found nowhere else in it.
PayloadOf(k, len) == [i \in 1..len |-> 16 * k + i]

\* The body of a file whose k-th chunk has id list[k].id and list[k].len
\* payload bytes.
RiffBody(list) ==
    Concat([k \in 1..Len(list) |-> RiffChunk(list[k].id, PayloadOf(k, list[k].len))])

RiffFile(magic, declared, type, body) == magic \o LE32(declared) \o type \o body

\* The file that holds the chunks of a chunk map, in a fixed order.
ChunkOrder == <<"meta", "stri", "symb", "refs", "rela", "srcs", "cmdl">>
Shard(cs) ==
    RiffFile(RiffMagic,
             FourCCLen + Len(Concat([k \in 1..Len(ChunkOrder) |->
                    IF cs[ChunkOrder[k]].some
                    THEN RiffChunk(ChunkIdText(ChunkOrder[k]), cs[ChunkOrder[k]].data)
                    ELSE <<>>])),
             CdIxType,
             Concat([k \in 1..Len(ChunkOrder) |->
                    IF cs[ChunkOrder[k]].some
                    THEN RiffChunk(ChunkIdText(ChunkOrder[k]), cs[ChunkOrder[k]].data)
                    ELSE <<>>]))

\* Chunk ids: three the decoders know, one they do not, two that are not ASCII.
AsciiTags == {ChunkIdText("meta"), ChunkIdText("stri"), ChunkIdText("symb"),
              <<120, 116, 114, 97>>}
Tags == AsciiTags \cup {<<255, 97, 98, 99>>, <<97, 98, 99, 200>>}

ChunkShapes == {[id |-> id, len |-> len] : id \in Tags, len \in 0..MaxPayloadLen}

\* Files written as the format says: every chunk whole and padded, the
\* total-size field counting everything after itself.
WholeFiles ==
    {[file |-> RiffFile(RiffMagic, FourCCLen + Len(RiffBody(list)), CdIxType,
                        RiffBody(list)),
      gen |-> [family |-> "whole", list |-> list,
               declared |-> FourCCLen + Len(RiffBody(list)),
               cut |-> RiffHeaderLen + FourCCLen + Len(RiffBody(list))]] :
        list \in SeqsUpTo(ChunkShapes, MaxChunks)}

\* Three chunks, the first and the last of odd length.
BaseList == <<[id |-> ChunkIdText("meta"), len |-> 1],
              [id |-> <<120, 116, 114, 97>>, len |-> 2],
              [id |-> ChunkIdText("stri"), len |-> 3]>>
BaseLen == RiffHeaderLen + FourCCLen + Len(RiffBody(BaseList))

\* The file of BaseList with any magic, any type tag, any total-size field,
\* and cut at any length.
DamagedFiles ==
    {[file |-> SubSeq(RiffFile(magic, declared, type, RiffBody(BaseList)), 1, cut),
      gen |-> [family |-> "damaged", list |-> BaseList, declared |-> declared,
               cut |-> cut]] :
        magic \in {RiffMagic, <<82, 73, 70, 88>>},
        type \in {CdIxType, <<67, 100, 73, 121>>},
        declared \in 0..(BaseLen - RiffHeaderLen + 2),
        cut \in 0..BaseLen}

\* Whole index shards: the seven chunks of a container, and the same with a
\* second 'refs' chunk after them, the first one then holding one group only.
ShardGroups == <<GrpA, GrpB, GrpD>>
ShardList(v, again) ==
    [k \in 1..(Len(ChunkOrder) + (IF again THEN 1 ELSE 0)) |->
        IF k > Len(ChunkOrder)
        THEN [id |-> ChunkIdText("refs"), data |-> EncAll("refs", ShardGroups, v)]
        ELSE [id |-> ChunkIdText(ChunkOrder[k]),
              data |-> IF again /\ ChunkOrder[k] = "refs" THEN EncGroup(GrpB, v)
                       ELSE SubsetContainer(v, OptionalIds, <<>>)[ChunkOrder[k]].data]]

ShardBody(list) == Concat([k \in 1..Len(list) |-> RiffChunk(list[k].id, list[k].data)])

ShardFiles ==
    {[file |-> RiffFile(RiffMagic, FourCCLen + Len(ShardBody(ShardList(v, again))),
                        CdIxType, ShardBody(ShardList(v, again))),
      gen |-> [family |-> "shard", version |-> v, list |-> ShardList(v, again),
               groups |-> ShardGroups,
               declared |-> FourCCLen + Len(ShardBody(ShardList(v, again))),
               cut |-> RiffHeaderLen + FourCCLen + Len(ShardBody(ShardList(v, again)))]] :
        v \in DecodeVersions, again \in BOOLEAN}

RiffFiles == WholeFiles \cup DamagedFiles \cup ShardFiles

(***************************************************************************)
(* The parser as a state machine                                           *)
(***************************************************************************)
NoCall == [status |-> "none", exc |-> NoError, value |-> <<>>]
Running == [status |-> "running", exc |-> NoError, value |-> <<>>]
Returned(v) == [status |-> "returned", exc |-> NoError, value |-> v]
Raised(e) == [status |-> "raised", exc |-> e, value |-> <<>>]

\* The exceptions the decoders' try blocks catch.
Caught_struct_error_only == {"struct.error"}

Caught == {"EOFError", "struct.error"}

\* No function is applied on its own.
NoApply == [fn |-> "none"]
NoOutcome == [done |-> FALSE]

\* The decoders, and the history of their first calls: kept where `on` is set.
Decoders ==
    {"parse_symbols", "parse_refs", "parse_relations", "parse_sources", "parse_command"}
NoHistory == [on |-> FALSE, of |-> [d \in Decoders |-> NoCall], again |-> FALSE]

\* The history after the call of decoder `name` came to r: its first outcome
\* is kept, and `again` tells that the call which just ended was a later one.
Noted(name, r) ==
    IF ~first_call.on \/ r.status = "running" THEN first_call
    ELSE IF first_call.of[name] = NoCall
    THEN [first_call EXCEPT !.of[name] = r, !.again = FALSE]
    ELSE [first_call EXCEPT !.again = TRUE]

\* No index generator runs.
NoGenerator ==
    /\ pc = <<>>
    /\ local = <<>>
    /\ inbox = <<>>
    /\ process = "None"
    /\ stdin = <<>>
    /\ stdin_lock = "free"
    /\ request_id = 0
    /\ log_file_handle = "None"
    /\ files_with_errors = <<>>
    /\ attributed = <<>>
    /\ indexing_complete = FALSE
    /\ indexed_files = {}
    /\ since_start_time = 0
    /\ since_last_indexing_activity = 0
    /\ since_final_wait_start = 0

\* No index file is read.
NoParser ==
    /\ chunks = [c \in ChunkIds |-> None]
    /\ zlib_out = NoZlib
    /\ gen = [family |-> "generator"]
    /\ state = "none"
    /\ error = NoException
    /\ format_version = NoVersion
    /\ strategy = "None"
    /\ string_table = NoTable
    /\ op = "none"
    /\ pos = 0
    /\ acc = <<>>
    /\ ret = NoCall
    /\ file = <<>>
    /\ f_tell = 0
    /\ file_size = 0
    /\ riff_chunks = <<>>
    /\ riff_state = "none"
    /\ applied = NoApply
    /\ outcome = NoOutcome
    /\ first_call = NoHistory

\* The dict RIFFParser built from the file Shard(cs).
dict_of(cs) ==
    [k \in 1..Len(SelectSeq(ChunkOrder, LAMBDA c : cs[c].some)) |->
        [key |-> ChunkIdText(SelectSeq(ChunkOrder, LAMBDA c : cs[c].some)[k]),
         value |-> cs[SelectSeq(ChunkOrder, LAMBDA c : cs[c].some)[k]].data]]

\* The parser is entered where RIFFParser has read the whole file.
Init ==
    /\ \E i \in Inputs :
        /\ chunks = i.chunks
        /\ zlib_out = i.zlib_out
        /\ gen = i.gen
    /\ state = "new"
    /\ error = NoException
    /\ format_version = NoVersion
    /\ strategy = "None"
    /\ string_table = NoTable
    /\ op = "none"
    /\ pos = 0
    /\ acc = <<>>
    /\ ret = NoCall
    /\ file = Shard(chunks)
    /\ f_tell = Len(file)
    /\ file_size = Len(file) - RiffHeaderLen
    /\ riff_chunks = dict_of(chunks)
    /\ riff_state = "done"
    /\ applied = NoApply
    /\ outcome = NoOutcome
    /\ first_call = NoHistory
    /\ NoGenerator

\* The fields of the parser after _initialize ended as r says.
Constructed(r) ==
    /\ state' = r.state
    /\ error' = r.error
    /\ format_version' = r.format_version
    /\ strategy' = r.strategy
    /\ string_table' = r.string_table

\* IdxFileParser.__init__ on the chunk map RIFFParser produced.
Initialize ==
    /\ state = "new"
    /\ riff_state = "done"
    /\ Constructed(_initialize(chunks, zlib_out))
    /\ UNCHANGED <<chunks, zlib_out, gen, op, pos, acc, ret, first_call>>
    /\ UNCHANGED <<riff_vars, unit_vars, generator_vars>>

Idle == state = "ready" /\ ret.status # "running"

\* The head of a decoder: return the empty result when the chunk is missing
\* or empty, else open a BytesIO on it.
Call_stream_kept(name, id, empty) ==
    /\ Idle
    /\ op' = name
    /\ pos' = pos
    /\ acc' = <<>>
    /\ ret' = IF not_(get_chunk(chunks, id)) THEN Returned(empty) ELSE Running
    /\ first_call' = Noted(name, ret')
    /\ UNCHANGED <<chunks, zlib_out, gen, state, error, format_version, strategy,
                   string_table>>
    /\ UNCHANGED <<riff_vars, unit_vars, generator_vars>>

Call(name, id, empty) ==
    /\ Idle
    /\ op' = name
    /\ pos' = 0
    /\ acc' = <<>>
    /\ ret' = IF not_(get_chunk(chunks, id)) THEN Returned(empty) ELSE Running
    /\ first_call' = Noted(name, ret')
    /\ UNCHANGED <<chunks, zlib_out, gen, state, error, format_version, strategy,
                   string_table>>
    /\ UNCHANGED <<riff_vars, unit_vars, generator_vars>>

\* The collection after the try block stored the record it decoded.
Stored(name, collection, item) ==
    IF name = "parse_refs" THEN dict_set(collection, item.symbol_id, item.refs)
    ELSE Append(collection, item)

\* One pass of `while f.tell() < len(data): try: ... except (EOFError,
\* struct.error): break`, r being the reader state the try block ends in;
\* falling out of the loop returns the collection.
Iterate(name, id, r) ==
    /\ op = name
    /\ ret.status = "running"
    /\ pos < Len(get_chunk(chunks, id).data)
    /\ pos' = r.pos
    /\ acc' = IF r.err = NoError THEN Stored(name, acc, r.vals[1]) ELSE acc
    /\ ret' = IF r.err = NoError THEN Running
              ELSE IF r.err \in Caught THEN Returned(acc)
              ELSE Raised(r.err)
    /\ first_call' = Noted(name, ret')
    /\ UNCHANGED <<chunks, zlib_out, gen, state, error, format_version, strategy,
                   string_table, op>>
    /\ UNCHANGED <<riff_vars, unit_vars, generator_vars>>

\* The loop condition fails: return the collection.
Finish(name, id) ==
    /\ op = name
    /\ ret.status = "running"
    /\ pos >= Len(get_chunk(chunks, id).data)
    /\ ret' = Returned(acc)
    /\ first_call' = Noted(name, ret')
    /\ UNCHANGED <<chunks, zlib_out, gen, state, error, format_version, strategy,
                   string_table, op, pos, acc>>
    /\ UNCHANGED <<riff_vars, unit_vars, generator_vars>>

parse_symbols_call == Call("parse_symbols", "symb", <<>>)
parse_symbols_iter ==
    Iterate("parse_symbols", "symb",
            _parse_symbol(get_chunk(chunks, "symb").data, pos, strategy,
                          string_table.strings))
parse_symbols_return == Finish("parse_symbols", "symb")

parse_refs_call == Call("parse_refs", "refs", <<>>)
parse_refs_iter ==
    Iterate("parse_refs", "refs",
            _parse_refs_group(get_chunk(chunks, "refs").data, pos, strategy,
                              string_table.strings))
parse_refs_return == Finish("parse_refs", "refs")

parse_relations_call == Call("parse_relations", "rela", <<>>)
parse_relations_iter ==
    Iterate("parse_relations", "rela",
            _parse_relation(get_chunk(chunks, "rela").data, pos))
parse_relations_return == Finish("parse_relations", "rela")

parse_sources_call == Call("parse_sources", "srcs", <<>>)
parse_sources_iter ==
    Iterate("parse_sources", "srcs",
            _parse_source(get_chunk(chunks, "srcs").data, pos, string_table.strings))
parse_sources_return == Finish("parse_sources", "srcs")

\* parse_command has no loop and no try block: one step from call to outcome.
NoCommand == [some |-> FALSE, directory |-> <<>>, arguments |-> <<>>]

parse_command_outcome_recovering(cmdl_data, r) ==
    /\ pos' = IF not_(cmdl_data) THEN 0 ELSE r.pos
    /\ ret' = IF not_(cmdl_data) THEN Returned(NoCommand)
              ELSE IF r.err = NoError THEN Returned(r.vals[1])
              ELSE IF r.err \in Caught THEN Returned(NoCommand)
              ELSE Raised(r.err)

parse_command_outcome(cmdl_data, r) ==
    /\ pos' = IF not_(cmdl_data) THEN 0 ELSE r.pos
    /\ ret' = IF not_(cmdl_data) THEN Returned(NoCommand)
              ELSE IF r.err = NoError THEN Returned(r.vals[1])
              ELSE Raised(r.err)

parse_command ==
    /\ Idle
    /\ parse_command_outcome(
            get_chunk(chunks, "cmdl"),
            _parse_command(get_chunk(chunks, "cmdl").data, string_table.strings))
    /\ op' = "parse_command"
    /\ acc' = <<>>
    /\ first_call' = Noted("parse_command", ret')
    /\ UNCHANGED <<chunks, zlib_out, gen, state, error, format_version, strategy,
                   string_table>>
    /\ UNCHANGED <<riff_vars, unit_vars, generator_vars>>

Next ==
    \/ Initialize
    \/ parse_symbols_call \/ parse_symbols_iter \/ parse_symbols_return
    \/ parse_refs_call \/ parse_refs_iter \/ parse_refs_return
    \/ parse_relations_call \/ parse_relations_iter \/ parse_relations_return
    \/ parse_sources_call \/ parse_sources_iter \/ parse_sources_return
    \/ parse_command

Spec == Init /\ [][Next]_vars

(***************************************************************************)
(* The same parser, called again and again, with the history of its calls  *)
(***************************************************************************)
CallsInit ==
    /\ \E i \in SubsetFamily :
        /\ chunks = i.chunks
        /\ zlib_out = i.zlib_out
        /\ gen = i.gen
    /\ state = "new"
    /\ error = NoException
    /\ format_version = NoVersion
    /\ strategy = "None"
    /\ string_table = NoTable
    /\ op = "none"
    /\ pos = 0
    /\ acc = <<>>
    /\ ret = NoCall
    /\ file = Shard(chunks)
    /\ f_tell = Len(file)
    /\ file_size = Len(file) - RiffHeaderLen
    /\ riff_chunks = dict_of(chunks)
    /\ riff_state = "done"
    /\ applied = NoApply
    /\ outcome = NoOutcome
    /\ first_call = [NoHistory EXCEPT !.on = TRUE]
    /\ NoGenerator

CallsSpec == CallsInit /\ [][Next]_vars

(***************************************************************************)
(* RIFFParser.__init__ as a state machine, from the file to the chunk map  *)
(***************************************************************************)
RiffInit ==
    /\ \E i \in RiffFiles :
        /\ file = i.file
        /\ gen = i.gen
    /\ f_tell = 0
    /\ file_size = 0
    /\ riff_chunks = <<>>
    /\ riff_state = "header"
    /\ chunks = [c \in ChunkIds |-> None]
    /\ zlib_out = NoZlib
    /\ state = "new"
    /\ error = NoException
    /\ format_version = NoVersion
    /\ strategy = "None"
    /\ string_table = NoTable
    /\ op = "none"
    /\ pos = 0
    /\ acc = <<>>
    /\ ret = NoCall
    /\ applied = NoApply
    /\ outcome = NoOutcome
    /\ first_call = NoHistory
    /\ NoGenerator

\* An exception leaves RIFFParser.__init__ and, through it,
\* IdxFileParser.__init__.
riff_raised(e) ==
    /\ riff_state' = "raised"
    /\ state' = "failed"
    /\ error' = e
    /\ UNCHANGED chunks

\* RIFFParser.__init__ returns: get_chunk answers from the dict.
riff_returned(d) ==
    /\ riff_state' = "done"
    /\ chunks' = chunk_map(d)
    /\ UNCHANGED <<state, error>>

riff_header_outcome(h) ==
    /\ f_tell' = h.pos
    /\ file_size' = h.file_size
    /\ IF h.error.type = NoError
       THEN riff_state' = "chunks" /\ UNCHANGED <<chunks, state, error>>
       ELSE riff_raised(h.error)

\* self.chunks = {} and the header part of _parse.
RIFF_header ==
    /\ riff_state = "header"
    /\ riff_header_outcome(riff_read_header(file))
    /\ UNCHANGED <<file, riff_chunks, zlib_out, gen, format_version, strategy,
                   string_table, op, pos, acc, ret, unit_vars, first_call,
                   generator_vars>>

riff_chunk_outcome(r) ==
    /\ f_tell' = r.pos
    /\ riff_chunks' = r.chunks
    /\ IF r.err # NoError THEN riff_raised(RiffRaise(r.err, "", 0))
       ELSE IF r.brk THEN riff_returned(r.chunks)
       ELSE riff_state' = "chunks" /\ UNCHANGED <<chunks, state, error>>

\* One pass of `while f.tell() < file_size + 8`.
RIFF_chunk ==
    /\ riff_state = "chunks"
    /\ f_tell < file_size + RiffHeaderLen
    /\ riff_chunk_outcome(riff_read_chunk(file, riff_chunks, f_tell))
    /\ UNCHANGED <<file, file_size, zlib_out, gen, format_version, strategy,
                   string_table, op, pos, acc, ret, unit_vars, first_call,
                   generator_vars>>

\* The loop condition fails: _parse and __init__ return.
RIFF_end ==
    /\ riff_state = "chunks"
    /\ f_tell >= file_size + RiffHeaderLen
    /\ riff_returned(riff_chunks)
    /\ UNCHANGED <<file, f_tell, file_size, riff_chunks, zlib_out, gen,
                   format_version, strategy, string_table, op, pos, acc, ret,
                   unit_vars, first_call, generator_vars>>

RiffNext ==
    \/ RIFF_header
    \/ RIFF_chunk
    \/ RIFF_end
    \/ Next

RiffSpec == RiffInit /\ [][RiffNext]_vars

(***************************************************************************)
(* The functions of the decoder called on their own                        *)
(***************************************************************************)
VarintBytes == {0, 1, 127, 128, 129, 255}

\* read_varint on every buffer of these bytes, from every position in it.
VarintCalls ==
    {[fn |-> "read_varint", buf |-> buf, start |-> start] :
        buf \in SeqsUpTo(VarintBytes, MaxVarintLen), start \in 0..MaxVarintLen}

\* parse_ref of each strategy on one stream: some bytes before the record,
\* a kind byte, a location, and 8 bytes or more after it.
RefStreams ==
    {[fn |-> "parse_ref", buf |-> before \o <<kind>> \o EncLoc(loc) \o after,
      start |-> Len(before), kind |-> kind, loc |-> loc] :
        before \in {<<>>, <<9, 200>>},
        kind \in {0, 4, 15, 130},
        loc \in {<<1, 3, 4, 3, 9>>, <<0, 5, 300, 7, 8>>, <<2, 0, 0, 16384, 1>>},
        after \in {IdBytes(6), IdBytes(7) \o <<1, 2, 3>>}}

\* parse_include_header of each strategy on one stream: the varints h and p
\* and what follows them.
HeaderValues == {0, 1, 2, 3, 4, 6, 7, 14, 21, 127, 128, 129, 255, 300, 16383, 16384}
HeaderStreams ==
    {[fn |-> "parse_include_header", buf |-> EncVarint(h) \o EncVarint(p) \o after,
      start |-> 0, h |-> h, p |-> p] :
        h \in {0, 1, 2, 200}, p \in HeaderValues, after \in {<<>>, <<5>>}}

UnitInit ==
    /\ applied \in {c \in VarintCalls : c.start <= Len(c.buf)}
                   \cup RefStreams \cup HeaderStreams
    /\ outcome = NoOutcome
    /\ first_call = NoHistory
    /\ NoGenerator
    /\ file = <<>>
    /\ f_tell = 0
    /\ file_size = 0
    /\ riff_chunks = <<>>
    /\ riff_state = "none"
    /\ chunks = [c \in ChunkIds |-> None]
    /\ zlib_out = NoZlib
    /\ gen = [family |-> "unit"]
    /\ state = "none"
    /\ error = NoException
    /\ format_version = NoVersion
    /\ strategy = "None"
    /\ string_table = [built |-> TRUE, strings |-> PoolStrings]
    /\ op = "none"
    /\ pos = 0
    /\ acc = <<>>
    /\ ret = NoCall

Applied(fn) == applied.fn = fn /\ ~outcome.done

\* How a call ended: the cursor, the exception, the value returned.
Outcome(r) ==
    [pos |-> r.pos, err |-> r.err,
     value |-> IF r.err = NoError THEN r.vals[1] ELSE 0]

call_read_varint ==
    /\ Applied("read_varint")
    /\ outcome' = [done |-> TRUE,
                   varint |-> Outcome(read_varint(applied.buf, At(applied.start)))]
    /\ UNCHANGED <<chunks, zlib_out, gen, state, error, format_version, strategy,
                   string_table, op, pos, acc, ret, riff_vars, applied,
                   first_call, generator_vars>>

call_parse_ref ==
    /\ Applied("parse_ref")
    /\ outcome' =
        [done |-> TRUE,
         v12 |-> Outcome(Format12Strategy_parse_ref(
                    applied.buf, At(applied.start), string_table.strings)),
         v13 |-> Outcome(Format13To17Strategy_parse_ref(
                    applied.buf, At(applied.start), string_table.strings)),
         v18 |-> Outcome(Format18PlusStrategy_parse_ref(
                    applied.buf, At(applied.start), string_table.strings))]
    /\ UNCHANGED <<chunks, zlib_out, gen, state, error, format_version, strategy,
                   string_table, op, pos, acc, ret, riff_vars, applied,
                   first_call, generator_vars>>

call_parse_include_header ==
    /\ Applied("parse_include_header")
    /\ outcome' =
        [done |-> TRUE,
         v12 |-> Outcome(Format12Strategy_parse_include_header(
                    applied.buf, At(applied.start), string_table.strings)),
         v13 |-> Outcome(Format13To17Strategy_parse_include_header(
                    applied.buf, At(applied.start), string_table.strings)),
         v18 |-> Outcome(Format18PlusStrategy_parse_include_header(
                    applied.buf, At(applied.start), string_table.strings))]
    /\ UNCHANGED <<chunks, zlib_out, gen, state, error, format_version, strategy,
                   string_table, op, pos, acc, ret, riff_vars, applied,
                   first_call, generator_vars>>

UnitNext ==
    \/ call_read_varint
    \/ call_parse_ref
    \/ call_parse_include_header

UnitSpec == UnitInit /\ [][UnitNext]_vars


(***************************************************************************)
(* generate-index.py: the main thread and the message reader thread of     *)
(* ClangdIndexGenerator writing to clangd's stdin                          *)
(*                                                                         *)
(* process.stdin.write(content) hands the bytes to the pipe in pieces: the *)
(* header and the body of a message are written one after the other.       *)
(***************************************************************************)
MaxMessages == 2

\* self.writer: __init__ sets it to None and nothing assigns it again.
writer == "None"

NoId == -1
Request(id, method) == [kind |-> "request", id |-> id, method |-> method]
Notification(method) == [kind |-> "notification", id |-> NoId, method |-> method]
Response(id) == [kind |-> "response", id |-> id, method |-> ""]
NoMessage == [kind |-> "none", id |-> NoId, method |-> ""]

\* What main() sends before it waits and while it waits: initialize_lsp,
\* trigger_indexing_by_opening_file, open_file_for_indexing.
MainSends ==
    <<Request(NoId, "initialize"), Notification("initialized"),
      Notification("textDocument/didOpen"), Request(NoId, "textDocument/documentSymbol"),
      Notification("textDocument/didOpen")>>

\* What shutdown() sends when there is a writer.
ShutdownSends == <<Request(NoId, "shutdown"), Notification("exit")>>

\* content = f"Content-Length: {len(json_text)}\r\n\r\n{json_text}"
FrameParts == <<"header", "body">>

\* What clangd writes to its stdout for the reader thread.
Incoming ==
    {[method |-> "window/workDoneProgress/create", id |-> 0],
     [method |-> "$/progress", id |-> NoId]}

NoLocals == [todo |-> <<>>, closing |-> FALSE, message |-> NoMessage, written |-> 0]

LspInit ==
    /\ pc = [t \in {"main", "reader"} |-> IF t = "main" THEN "start" ELSE "none"]
    /\ local = [t \in {"main", "reader"} |->
                    IF t = "main" THEN [NoLocals EXCEPT !.todo = MainSends] ELSE NoLocals]
    /\ inbox \in {[t \in {"reader"} |-> q] : q \in SeqsUpTo(Incoming, MaxMessages)}
    /\ process = "None"
    /\ stdin = [written |-> <<>>, flushed |-> 0]
    /\ stdin_lock = "free"
    /\ request_id = 0
    /\ log_file_handle \in {"None", "open"}
    /\ files_with_errors = <<>>
    /\ attributed = <<>>
    /\ indexing_complete = FALSE
    /\ indexed_files = {}
    /\ since_start_time = 0
    /\ since_last_indexing_activity = 0
    /\ since_final_wait_start = 0
    /\ NoParser

\* The variables the sending threads leave alone.
lsp_rest ==
    <<files_with_errors, attributed, indexing_complete, indexed_files,
      since_start_time, since_last_indexing_activity, since_final_wait_start,
      parser_vars>>

\* start_clangd: Popen, the lock, the reader thread; or FileNotFoundError,
\* which main() answers with shutdown().
start_clangd ==
    /\ pc["main"] = "start"
    /\ \E found \in BOOLEAN :
        IF found
        THEN /\ process' = "running"
             /\ pc' = [pc EXCEPT !["main"] = "run", !["reader"] = "read"]
        ELSE /\ process' = process
             /\ pc' = [pc EXCEPT !["main"] = "shutdown"]
    /\ UNCHANGED <<local, inbox, stdin, stdin_lock, request_id, log_file_handle, lsp_rest>>

\* _send_request: the next id, then _send_json_rpc.
_send_request ==
    /\ pc["main"] = "run"
    /\ local["main"].todo # <<>>
    /\ Head(local["main"].todo).kind = "request"
    /\ request_id' = request_id + 1
    /\ local' = [local EXCEPT !["main"].todo = Tail(@),
                              !["main"].message =
                                    Request(request_id', Head(local["main"].todo).method),
                              !["main"].written = 0]
    /\ pc' = [pc EXCEPT !["main"] = "acquire"]
    /\ UNCHANGED <<inbox, process, stdin, stdin_lock, log_file_handle, lsp_rest>>

\* _send_notification: no id, then _send_json_rpc.
_send_notification ==
    /\ pc["main"] = "run"
    /\ local["main"].todo # <<>>
    /\ Head(local["main"].todo).kind = "notification"
    /\ local' = [local EXCEPT !["main"].todo = Tail(@),
                              !["main"].message = Head(local["main"].todo),
                              !["main"].written = 0]
    /\ pc' = [pc EXCEPT !["main"] = "acquire"]
    /\ UNCHANGED <<inbox, process, stdin, stdin_lock, request_id, log_file_handle,
                   lsp_rest>>

\* _read_messages takes the next message and _handle_message answers a
\* window/workDoneProgress/create with _send_response(id, None).
_handle_message ==
    /\ pc["reader"] = "read"
    /\ process = "running"
    /\ inbox["reader"] # <<>>
    /\ inbox' = [inbox EXCEPT !["reader"] = Tail(@)]
    /\ IF Head(inbox["reader"]).method = "window/workDoneProgress/create"
       THEN /\ local' = [local EXCEPT !["reader"].message =
                                            Response(Head(inbox["reader"]).id),
                                      !["reader"].written = 0]
            /\ pc' = [pc EXCEPT !["reader"] = "acquire"]
       ELSE UNCHANGED <<local, pc>>
    /\ UNCHANGED <<process, stdin, stdin_lock, request_id, log_file_handle, lsp_rest>>

\* `while self.process and self.process.poll() is None` fails.
_read_messages_return ==
    /\ pc["reader"] = "read"
    /\ process # "running"
    /\ pc' = [pc EXCEPT !["reader"] = "done"]
    /\ UNCHANGED <<local, inbox, process, stdin, stdin_lock, request_id,
                   log_file_handle, lsp_rest>>

\* `with self.stdin_lock:` entered.
stdin_lock_not_taken(t) ==
    /\ pc[t] = "acquire"
    /\ pc' = [pc EXCEPT ![t] = "write"]
    /\ UNCHANGED <<local, inbox, process, stdin, stdin_lock, request_id,
                   log_file_handle, lsp_rest>>

stdin_lock_acquire(t) ==
    /\ pc[t] = "acquire"
    /\ stdin_lock = "free"
    /\ stdin_lock' = t
    /\ pc' = [pc EXCEPT ![t] = "write"]
    /\ UNCHANGED <<local, inbox, process, stdin, request_id, log_file_handle, lsp_rest>>

\* self.process.stdin.write(content): the next piece goes into the pipe; on a
\* pipe whose reader is gone write raises, and the except clause prints.
stdin_write(t) ==
    /\ pc[t] = "write"
    /\ IF process \in {"running", "terminated"}
       THEN /\ stdin' = [stdin EXCEPT !.written =
                            Append(@, [of |-> local[t].message,
                                       part |-> FrameParts[local[t].written + 1]])]
            /\ local' = [local EXCEPT ![t].written = @ + 1]
            /\ pc' = [pc EXCEPT ![t] = IF local[t].written + 1 = Len(FrameParts)
                                       THEN "flush" ELSE "write"]
       ELSE /\ pc' = [pc EXCEPT ![t] = "release"]
            /\ UNCHANGED <<stdin, local>>
    /\ UNCHANGED <<inbox, process, stdin_lock, request_id, log_file_handle, lsp_rest>>

\* self.process.stdin.flush()
stdin_flush(t) ==
    /\ pc[t] = "flush"
    /\ stdin' = [stdin EXCEPT !.flushed = Len(stdin.written)]
    /\ pc' = [pc EXCEPT ![t] = "release"]
    /\ UNCHANGED <<local, inbox, process, stdin_lock, request_id, log_file_handle,
                   lsp_rest>>

\* The with block is left and _send_json_rpc returns to its caller.
stdin_lock_release(t) ==
    /\ pc[t] = "release"
    /\ stdin_lock' = "free"
    /\ pc' = [pc EXCEPT ![t] = IF t = "main" THEN "run" ELSE "read"]
    /\ UNCHANGED <<local, inbox, process, stdin, request_id, log_file_handle, lsp_rest>>

\* main() reaches its finally clause, by finishing or by an exception between
\* two sends; and shutdown() goes on when it has nothing left to send.
main_finally ==
    /\ pc["main"] = "run"
    /\ local["main"].closing => local["main"].todo = <<>>
    /\ pc' = [pc EXCEPT !["main"] = IF local["main"].closing THEN "terminate"
                                    ELSE "shutdown"]
    /\ UNCHANGED <<local, inbox, process, stdin, stdin_lock, request_id,
                   log_file_handle, lsp_rest>>

\* shutdown(): `if self.writer:` guards the shutdown request and the exit
\* notification.
shutdown ==
    /\ pc["main"] = "shutdown"
    /\ IF writer # "None"
       THEN /\ local' = [local EXCEPT !["main"].todo = ShutdownSends,
                                      !["main"].closing = TRUE]
            /\ pc' = [pc EXCEPT !["main"] = "run"]
       ELSE /\ pc' = [pc EXCEPT !["main"] = "terminate"]
            /\ UNCHANGED local
    /\ UNCHANGED <<inbox, process, stdin, stdin_lock, request_id, log_file_handle,
                   lsp_rest>>

\* `if self.process: self.process.terminate()`
process_terminate ==
    /\ pc["main"] = "terminate"
    /\ process' = IF process = "running" THEN "terminated" ELSE process
    /\ pc' = [pc EXCEPT !["main"] = IF process = "None" THEN "close_log" ELSE "wait"]
    /\ UNCHANGED <<local, inbox, stdin, stdin_lock, request_id, log_file_handle,
                   lsp_rest>>

\* self.process.wait(timeout=5), and kill() when it times out.
process_wait ==
    /\ pc["main"] = "wait"
    /\ \E in_time \in BOOLEAN :
        process' = IF process = "terminated" /\ ~in_time THEN "killed" ELSE "exited"
    /\ pc' = [pc EXCEPT !["main"] = "close_log"]
    /\ UNCHANGED <<local, inbox, stdin, stdin_lock, request_id, log_file_handle,
                   lsp_rest>>

\* `if self.log_file_handle: self.log_file_handle.close()`
log_file_close ==
    /\ pc["main"] = "close_log"
    /\ log_file_handle' = IF log_file_handle = "open" THEN "closed" ELSE log_file_handle
    /\ pc' = [pc EXCEPT !["main"] = "done"]
    /\ UNCHANGED <<local, inbox, process, stdin, stdin_lock, request_id, lsp_rest>>

\* clangd ends on its own.
clangd_exits ==
    /\ process = "running"
    /\ process' = "exited"
    /\ UNCHANGED <<pc, local, inbox, stdin, stdin_lock, request_id, log_file_handle,
                   lsp_rest>>

LspNext ==
    \/ start_clangd
    \/ _send_request
    \/ _send_notification
    \/ _handle_message
    \/ _read_messages_return
    \/ \E t \in {"main", "reader"} : stdin_lock_acquire(t)
    \/ \E t \in {"main", "reader"} : stdin_write(t)
    \/ \E t \in {"main", "reader"} : stdin_flush(t)
    \/ \E t \in {"main", "reader"} : stdin_lock_release(t)
    \/ main_finally
    \/ shutdown
    \/ process_terminate
    \/ process_wait
    \/ log_file_close
    \/ clangd_exits

LspSpec == LspInit /\ [][LspNext]_vars

(***************************************************************************)
(* generate-index.py: the stderr reader thread and the message reader      *)
(* thread of ClangdIndexGenerator counting errors in files_with_errors     *)
(*                                                                         *)
(* Both threads are started by start_clangd and touch the dictionary with  *)
(* no lock.  `if f not in d: d[f] = 0` is a test and a store, `d[f] += n`  *)
(* is a load, an addition and a store; another thread may run between any  *)
(* two of them (in _handle_message the call len(errors) stands between the *)
(* load and the store).                                                    *)
(***************************************************************************)
MaxEvents == 2
MaxErrors == 2

\* The names in compile_commands_files_by_name.
SourceFiles == {"a.cpp", "b.cpp"}

CountingThreads == {"stderr", "reader"}

NoCount == [file |-> "", n |-> 0, loaded |-> 0]

\* What a thread has attributed so far, over all files.
Events(t) ==
    LET Sum[F \in SUBSET SourceFiles] ==
            IF F = {} THEN 0
            ELSE LET f == CHOOSE x \in F : TRUE
                 IN  attributed[t][f] + Sum[F \ {f}]
    IN  Sum[SourceFiles]

ErrInit ==
    /\ pc = [t \in CountingThreads |-> "idle"]
    /\ local = [t \in CountingThreads |-> NoCount]
    /\ files_with_errors = <<>>
    /\ attributed = [t \in CountingThreads |-> [f \in SourceFiles |-> 0]]
    /\ inbox = <<>>
    /\ process = "running"
    /\ stdin = <<>>
    /\ stdin_lock = "free"
    /\ request_id = 0
    /\ log_file_handle = "None"
    /\ indexing_complete = FALSE
    /\ indexed_files = {}
    /\ since_start_time = 0
    /\ since_last_indexing_activity = 0
    /\ since_final_wait_start = 0
    /\ NoParser

\* The variables the counting threads leave alone.
err_rest ==
    <<inbox, process, stdin, stdin_lock, request_id, log_file_handle,
      indexing_complete, indexed_files, since_start_time,
      since_last_indexing_activity, since_final_wait_start, parser_vars>>

\* _read_stderr: a line with an error indicator that names a known file.
stderr_error_line ==
    /\ pc["stderr"] = "idle"
    /\ Events("stderr") < MaxEvents
    /\ \E f \in SourceFiles :
        /\ local' = [local EXCEPT !["stderr"] = [file |-> f, n |-> 1, loaded |-> 0]]
        /\ attributed' = [attributed EXCEPT !["stderr"][f] = @ + 1]
    /\ pc' = [pc EXCEPT !["stderr"] = "test"]
    /\ UNCHANGED <<files_with_errors, err_rest>>

\* _handle_message: textDocument/publishDiagnostics for a known file with
\* n diagnostics of severity 1.
publishDiagnostics ==
    /\ pc["reader"] = "idle"
    /\ \E f \in SourceFiles, n \in 1..MaxErrors :
        /\ Events("reader") + n <= MaxEvents
        /\ local' = [local EXCEPT !["reader"] = [file |-> f, n |-> n, loaded |-> 0]]
        /\ attributed' = [attributed EXCEPT !["reader"][f] = @ + n]
    /\ pc' = [pc EXCEPT !["reader"] = "test"]
    /\ UNCHANGED <<files_with_errors, err_rest>>

\* if filename not in self.files_with_errors:
files_with_errors_contains(t) ==
    /\ pc[t] = "test"
    /\ pc' = [pc EXCEPT ![t] = IF dict_get(files_with_errors, local[t].file).some
                               THEN "load" ELSE "init"]
    /\ UNCHANGED <<local, files_with_errors, attributed, err_rest>>

\* self.files_with_errors[filename] = 0
files_with_errors_init(t) ==
    /\ pc[t] = "init"
    /\ files_with_errors' = dict_set(files_with_errors, local[t].file, 0)
    /\ pc' = [pc EXCEPT ![t] = "load"]
    /\ UNCHANGED <<local, attributed, err_rest>>

\* self.files_with_errors[filename] += n, the load
files_with_errors_load(t) ==
    /\ pc[t] = "load"
    /\ local' = [local EXCEPT ![t].loaded = dict_get(files_with_errors, local[t].file).data]
    /\ pc' = [pc EXCEPT ![t] = "store"]
    /\ UNCHANGED <<files_with_errors, attributed, err_rest>>

\* self.files_with_errors[filename] += n, the addition and the store
files_with_errors_store(t) ==
    /\ pc[t] = "store"
    /\ files_with_errors' =
           dict_set(files_with_errors, local[t].file, local[t].loaded + local[t].n)
    /\ local' = [local EXCEPT ![t] = NoCount]
    /\ pc' = [pc EXCEPT ![t] = "idle"]
    /\ UNCHANGED <<attributed, err_rest>>

ErrNext ==
    \/ stderr_error_line
    \/ publishDiagnostics
    \/ \E t \in CountingThreads : files_with_errors_contains(t)
    \/ \E t \in CountingThreads : files_with_errors_init(t)
    \/ \E t \in CountingThreads : files_with_errors_load(t)
    \/ \E t \in CountingThreads : files_with_errors_store(t)

ErrSpec == ErrInit /\ [][ErrNext]_vars

(***************************************************************************)
(* generate-index.py: wait_for_indexing_completion and the final wait of   *)
(* ensure_all_files_indexed, with clangd and the two reader threads as the *)
(* environment                                                             *)
(*                                                                         *)
(* The code compares time.time() with start_time, last_indexing_activity   *)
(* and final_wait_start.  The model keeps the three differences, counted   *)
(* in ticks of half a second (the shortest sleep of the two loops), and    *)
(* stops counting one tick above the largest limit a difference is         *)
(* compared with.  start_time is not read after the monitoring loop, so    *)
(* its difference is not kept after it.                                    *)
(***************************************************************************)
TicksPerSecond == 2

\* time.sleep(1), time.sleep(2), time.sleep(0.5)
MonitorSleep == 1 * TicksPerSecond
SettleSleep == 2 * TicksPerSecond
FinalSleep == 1

\* current_time - self.last_indexing_activity > 45
NoActivityLimit == 45 * TicksPerSecond
\* current_time - start_time > 600
MaxIndexingTime == 600 * TicksPerSecond
max_final_wait == 10 * TicksPerSecond
\* time.time() - self.last_indexing_activity < 3
RecentActivity == 3 * TicksPerSecond

\* time.sleep(d), seen through the three differences.
Slept(since, d, limit) == Min(since + d, limit + 1)

time_sleep(d, timed) ==
    /\ since_start_time' =
           IF timed THEN Slept(since_start_time, d, MaxIndexingTime) ELSE 0
    /\ since_last_indexing_activity' =
           Slept(since_last_indexing_activity, d, NoActivityLimit)
    /\ since_final_wait_start' = Slept(since_final_wait_start, d, max_final_wait)

WaitInit ==
    /\ pc = [t \in {"main"} |-> "while"]
    /\ local = <<>>
    /\ inbox = <<>>
    /\ process = "running"
    /\ stdin = <<>>
    /\ stdin_lock = "free"
    /\ request_id = 0
    /\ log_file_handle = "None"
    /\ files_with_errors = <<>>
    /\ attributed = <<>>
    /\ indexing_complete = FALSE
    /\ indexed_files = {}
    /\ since_start_time = 0
    /\ since_last_indexing_activity = 0
    /\ since_final_wait_start = 0
    /\ NoParser

\* The variables the waiting loops and their environment leave alone.
wait_rest ==
    <<local, inbox, stdin, stdin_lock, request_id, log_file_handle,
      files_with_errors, attributed, parser_vars>>

\* while self.process and self.process.poll() is None:
wait_loop_test ==
    /\ pc["main"] = "while"
    /\ pc' = [pc EXCEPT !["main"] = IF process = "running" THEN "sleep" ELSE "status"]
    /\ since_start_time' = IF process = "running" THEN since_start_time ELSE 0
    /\ UNCHANGED <<process, indexing_complete, indexed_files,
                   since_last_indexing_activity, since_final_wait_start, wait_rest>>

\* time.sleep(1); current_time = time.time()
wait_sleep ==
    /\ pc["main"] = "sleep"
    /\ time_sleep(MonitorSleep, TRUE)
    /\ pc' = [pc EXCEPT !["main"] = "signals"]
    /\ UNCHANGED <<process, indexing_complete, indexed_files, wait_rest>>

\* The three ways out of the monitoring loop.
wait_signal ==
    IF indexing_complete
    THEN "settle"
    ELSE IF indexed_files # {} /\ since_last_indexing_activity > NoActivityLimit
    THEN "status"
    ELSE IF since_start_time > MaxIndexingTime
    THEN "status"
    ELSE "while"

wait_signals ==
    /\ pc["main"] = "signals"
    /\ pc' = [pc EXCEPT !["main"] = wait_signal]
    /\ since_start_time' = IF wait_signal = "status" THEN 0 ELSE since_start_time
    /\ UNCHANGED <<process, indexing_complete, indexed_files,
                   since_last_indexing_activity, since_final_wait_start, wait_rest>>

\* time.sleep(2); break
wait_settle ==
    /\ pc["main"] = "settle"
    /\ time_sleep(SettleSleep, FALSE)
    /\ pc' = [pc EXCEPT !["main"] = "status"]
    /\ UNCHANGED <<process, indexing_complete, indexed_files, wait_rest>>

\* Determine completion status: ensure_all_files_indexed is called when
\* indexing_complete is set.
completion_status ==
    /\ pc["main"] = "status"
    /\ pc' = [pc EXCEPT !["main"] = IF indexing_complete THEN "ensure" ELSE "returned"]
    /\ UNCHANGED <<process, indexing_complete, indexed_files, since_start_time,
                   since_last_indexing_activity, since_final_wait_start, wait_rest>>

\* ensure_all_files_indexed up to the final wait: no files at all, or the
\* files are opened one by one; each open that succeeds sets
\* last_indexing_activity, and final_wait_start is set when one succeeded.
ensure_all_files_indexed ==
    /\ pc["main"] = "ensure"
    /\ \E compile_commands_files \in BOOLEAN, files_opened \in BOOLEAN :
        IF compile_commands_files /\ files_opened
        THEN /\ since_last_indexing_activity' = 0
             /\ since_final_wait_start' = 0
             /\ pc' = [pc EXCEPT !["main"] = "final_while"]
        ELSE /\ pc' = [pc EXCEPT !["main"] = "returned"]
             /\ UNCHANGED <<since_last_indexing_activity, since_final_wait_start>>
    /\ UNCHANGED <<process, indexing_complete, indexed_files, since_start_time, wait_rest>>

\* while time.time() - final_wait_start < max_final_wait:
final_wait_test ==
    /\ pc["main"] = "final_while"
    /\ pc' = [pc EXCEPT !["main"] = IF since_final_wait_start < max_final_wait
                                    THEN "final_sleep" ELSE "returned"]
    /\ UNCHANGED <<process, indexing_complete, indexed_files, since_start_time,
                   since_last_indexing_activity, since_final_wait_start, wait_rest>>

\* time.sleep(0.5)
final_wait_sleep ==
    /\ pc["main"] = "final_sleep"
    /\ time_sleep(FinalSleep, FALSE)
    /\ pc' = [pc EXCEPT !["main"] = "final_check"]
    /\ UNCHANGED <<process, indexing_complete, indexed_files, wait_rest>>

\* Recent activity resets the wait timer; no recent activity ends the wait.
final_wait_check ==
    /\ pc["main"] = "final_check"
    /\ IF since_last_indexing_activity < RecentActivity
       THEN /\ since_final_wait_start' = 0
            /\ pc' = [pc EXCEPT !["main"] = "final_while"]
       ELSE /\ since_final_wait_start' = since_final_wait_start
            /\ pc' = [pc EXCEPT !["main"] = "returned"]
    /\ UNCHANGED <<process, indexing_complete, indexed_files, since_start_time,
                   since_last_indexing_activity, wait_rest>>

\* The steps of the main thread.
wait_for_indexing_completion ==
    \/ wait_loop_test
    \/ wait_sleep
    \/ wait_signals
    \/ wait_settle
    \/ completion_status
    \/ ensure_all_files_indexed
    \/ final_wait_test
    \/ final_wait_sleep
    \/ final_wait_check

\* A reader thread sees activity: a file of compile_commands.json processed,
\* a symbol slab line, a $/progress report.
indexing_activity ==
    /\ process = "running"
    /\ pc["main"] # "returned"
    /\ since_last_indexing_activity' = 0
    /\ UNCHANGED <<pc, process, indexing_complete, indexed_files, since_start_time,
                   since_final_wait_start, wait_rest>>

\* _read_stderr: an "Indexed <file> (<n> symbols" line.
file_indexed ==
    /\ process = "running"
    /\ pc["main"] # "returned"
    /\ \E f \in SourceFiles :
        /\ f \notin indexed_files
        /\ indexed_files' = indexed_files \cup {f}
    /\ UNCHANGED <<pc, process, indexing_complete, since_start_time,
                   since_last_indexing_activity, since_final_wait_start, wait_rest>>

\* $/progress with kind "end", or the backgroundIndexProgress end line.
indexing_ends ==
    /\ process = "running"
    /\ pc["main"] # "returned"
    /\ ~indexing_complete
    /\ indexing_complete' = TRUE
    /\ UNCHANGED <<pc, process, indexed_files, since_start_time,
                   since_last_indexing_activity, since_final_wait_start, wait_rest>>

\* clangd ends on its own while the main thread waits.
process_ends ==
    /\ pc["main"] # "returned"
    /\ clangd_exits

WaitNext ==
    \/ wait_loop_test
    \/ wait_sleep
    \/ wait_signals
    \/ wait_settle
    \/ completion_status
    \/ ensure_all_files_indexed
    \/ final_wait_test
    \/ final_wait_sleep
    \/ final_wait_check
    \/ indexing_activity
    \/ file_indexed
    \/ indexing_ends
    \/ process_ends

WaitSpec == WaitInit /\ [][WaitNext]_vars

\* The main thread is not stopped for ever: a sleep ends and the statement
\* after it runs.  Nothing is assumed of clangd.
WaitFairSpec == WaitSpec /\ WF_vars(wait_for_indexing_completion)

(***************************************************************************)
(* What the claims speak of                                                *)
(***************************************************************************)
\* The chunk a decoder reads.
ChunkOf(name) ==
    CASE name = "parse_symbols"   -> "symb"
      [] name = "parse_refs"      -> "refs"
      [] name = "parse_relations" -> "rela"
      [] name = "parse_sources"   -> "srcs"
      [] name = "parse_command"   -> "cmdl"

Data(id) == chunks[id].data

\* A decoder call has ended, by returning or by raising.
Ended(name) == op = name /\ ret.status \in {"returned", "raised"}

\* The container holds complete records of chunk id and a cut one.
Trunc(id) == gen.family = "trunc" /\ gen.id = id
TailLen == Len(Enc(gen.id, gen.tail, gen.version))
Complete == gen.cut = TailLen

\* The records written in full into the chunk, in order.
Written == IF Complete THEN Append(gen.recs, gen.tail) ELSE gen.recs

\* A record of chunk id decoded from its own complete encoding.
Clean(id, r) ==
    CASE id = "symb" ->
            _parse_symbol(Enc(id, r, gen.version), 0, strategy, string_table.strings).vals[1]
      [] id = "refs" ->
            _parse_refs_group(Enc(id, r, gen.version), 0, strategy,
                              string_table.strings).vals[1]
      [] id = "srcs" ->
            _parse_source(Enc(id, r, gen.version), 0, string_table.strings).vals[1]

\* The 32-bit little-endian number in the first 4 bytes of a chunk.
First32(id) ==
    Data(id)[1] + 256 * Data(id)[2] + 65536 * Data(id)[3] + 16777216 * Data(id)[4]

(***************************************************************************)
(* C1.  Symbol decoder, truncated tail: on a 'symb' chunk of k complete    *)
(* records followed by a proper prefix of one more, cut at any byte,       *)
(* parse_symbols returns (does not raise) exactly the k complete records   *)
(* in order.                                                               *)
(***************************************************************************)
C1_SymbolsTruncatedTail ==
    (Trunc("symb") /\ ~Complete /\ Ended("parse_symbols"))
    => /\ ret.status = "returned"
       /\ ret.value = [i \in 1..Len(gen.recs) |-> Clean("symb", gen.recs[i])]

(***************************************************************************)
(* C2.  Relation decoder: on a 'rela' chunk of length L >= 1,              *)
(* parse_relations returns (does not raise) exactly L div 17 relations,    *)
(* the i-th made of bytes [17i, 17i+17) as 8-byte subject, predicate byte, *)
(* 8-byte object; a remainder of 1..16 bytes adds no record and no error.  *)
(***************************************************************************)
C2_RelationsByLength ==
    (gen.family = "rela" /\ gen.len >= 1 /\ Ended("parse_relations"))
    => /\ ret.status = "returned"
       /\ ret.value =
            [i \in 1..(gen.len \div 17) |->
                [subject   |-> SubSeq(Data("rela"), 17 * (i - 1) + 1, 17 * (i - 1) + 8),
                 predicate |-> Data("rela")[17 * (i - 1) + 9],
                 object    |-> SubSeq(Data("rela"), 17 * (i - 1) + 10, 17 * i)]]

(***************************************************************************)
(* C3.  No fabricated fields: in every record a decoder returns, on any    *)
(* chunk, every fixed-width id field (Symbol id, reference-group symbol    *)
(* id, Reference container id, Relation subject and object, include-graph  *)
(* digest) holds exactly 8 bytes.                                          *)
(***************************************************************************)
C3_FixedWidthFieldsWhole ==
    ret.status = "returned" =>
        CASE op = "parse_symbols" ->
                \A i \in 1..Len(ret.value) : Len(ret.value[i].id) = IdLen
          [] op = "parse_refs" ->
                \A i \in 1..Len(ret.value) :
                    /\ Len(ret.value[i].key) = IdLen
                    /\ \A j \in 1..Len(ret.value[i].value) :
                        ret.value[i].value[j].container.some
                        => Len(ret.value[i].value[j].container.bytes) = IdLen
          [] op = "parse_relations" ->
                \A i \in 1..Len(ret.value) :
                    /\ Len(ret.value[i].subject) = IdLen
                    /\ Len(ret.value[i].object) = IdLen
          [] op = "parse_sources" ->
                \A i \in 1..Len(ret.value) : Len(ret.value[i].digest) = IdLen
          [] OTHER -> TRUE

\* Offset, within the encoding of group g, of the end of its j-th Reference.
RefEnd(g, j) ==
    Len(g.id) + Len(EncVarint(Len(g.refs)))
    + Len(Concat([i \in 1..j |-> EncRef(g.refs[i], gen.version)]))

\* The cut falls strictly inside the j-th Reference of the last group.
CutInsideRef(j) ==
    /\ j \in 1..Len(gen.tail.refs)
    /\ RefEnd(gen.tail, j - 1) < gen.cut
    /\ gen.cut < RefEnd(gen.tail, j)

\* The reference map after the groups gs were stored in order.
RECURSIVE RefsMap(_)
RefsMap(gs) ==
    IF Len(gs) = 0 THEN <<>>
    ELSE dict_set(RefsMap(SubSeq(gs, 1, Len(gs) - 1)),
                  gs[Len(gs)].symbol_id, gs[Len(gs)].refs)

(***************************************************************************)
(* C4.  Reference decoder, truncated tail: on a 'refs' chunk that ends     *)
(* inside the j-th Reference record of its last group, parse_refs returns  *)
(* (does not raise) the earlier complete groups unchanged and, under the   *)
(* cut group's symbol id, that group's first j-1 References.               *)
(***************************************************************************)
C4_RefsTruncatedTail ==
    (Trunc("refs") /\ Ended("parse_refs")) =>
        \A j \in 1..Len(gen.tail.refs) :
        CutInsideRef(j)
        => /\ ret.status = "returned"
           /\ ret.value =
                RefsMap([i \in 1..Len(gen.recs) |-> Clean("refs", gen.recs[i])]
                        \o << [symbol_id |-> gen.tail.id,
                               refs |-> SubSeq(Clean("refs", gen.tail).refs, 1, j - 1)] >>)

\* The string pool of a 'stri' chunk stored raw, and its NUL-delimited pieces.
RawPool == SubSeq(Data("stri"), VersionLen + 1, Len(Data("stri")))
NulAt(blob) == {i \in 1..Len(blob) : blob[i] = 0}
LastNul(blob) ==
    IF NulAt(blob) = {} THEN 0
    ELSE CHOOSE i \in NulAt(blob) : \A k \in NulAt(blob) : k <= i
PieceCount(blob) == Cardinality(NulAt(blob)) + (IF LastNul(blob) < Len(blob) THEN 1 ELSE 0)
\* Where the n-th piece (counted from 0) starts: after the n-th NUL.
PieceStart(blob, n) ==
    IF n = 0 THEN 1
    ELSE 1 + CHOOSE i \in NulAt(blob) : Cardinality({k \in NulAt(blob) : k <= i}) = n
PieceEnd(blob, n) ==
    IF n < Cardinality(NulAt(blob))
    THEN (CHOOSE i \in NulAt(blob) : Cardinality({k \in NulAt(blob) : k <= i}) = n + 1) - 1
    ELSE Len(blob)
Piece(blob, n) == utf8_decode(SubSeq(blob, PieceStart(blob, n), PieceEnd(blob, n)))

RawPoolBuilt ==
    /\ state = "ready"
    /\ First32("stri") = 0

(***************************************************************************)
(* C5.  String Table lookup: for a string pool that splits into N          *)
(* NUL-delimited strings (its first string empty or not), get(0) is "",    *)
(* get(i) for 1 <= i < N is the i-th string, get(i) for i >= N is "".      *)
(***************************************************************************)
C5_StringTableLookup ==
    RawPoolBuilt =>
        /\ StringTable_get(string_table.strings, 0) = <<>>
        /\ \A i \in 1..(PieceCount(RawPool) - 1) :
                StringTable_get(string_table.strings, i) = Piece(RawPool, i)
        /\ \A i \in PieceCount(RawPool)..(PieceCount(RawPool) + 2) :
                StringTable_get(string_table.strings, i) = <<>>

(***************************************************************************)
(* C6.  Location sentinel: in every decoder that reads a Location (Symbol  *)
(* definition and canonical declaration, Reference location under each     *)
(* strategy) a Location whose file index is 0 still takes five varints     *)
(* and is reported absent; it is reported present only when the file       *)
(* index is not 0.                                                         *)
(***************************************************************************)
C6_LocationSentinel ==
    /\ (Trunc("symb") /\ op = "parse_symbols" /\ ret.status = "returned")
       => /\ Len(ret.value) = Len(Written)
          /\ \A i \in 1..Len(ret.value) :
                /\ ret.value[i].definition.present = (Written[i].def[1] # 0)
                /\ ret.value[i].canonical_declaration.present = (Written[i].decl[1] # 0)
    /\ (Trunc("refs") /\ Complete /\ op = "parse_refs" /\ ret.status = "returned")
       => \A i \in 1..Len(ret.value) : \A k \in 1..Len(Written) :
            Written[k].id = ret.value[i].key
            => /\ Len(ret.value[i].value) = Len(Written[k].refs)
               /\ \A j \in 1..Len(ret.value[i].value) :
                    ret.value[i].value[j].location.present = (Written[k].refs[j].loc[1] # 0)

VersionRead == state # "new" /\ Len(Data("meta")) >= VersionLen

Unsupported(v) ==
    /\ state = "failed"
    /\ error = [type |-> "ValueError", msg |-> "Unsupported format version", arg |-> v]
    /\ strategy = "None"

(***************************************************************************)
(* C7.  Version strategy selection: the 32-bit little-endian number v in   *)
(* the first 4 bytes of the metadata chunk selects Format12Strategy for    *)
(* v = 12, Format13To17Strategy for 13..17, Format18PlusStrategy for       *)
(* 18..20; any other v fails initialization with the unsupported-version   *)
(* error carrying v, and no strategy is selected.                          *)
(***************************************************************************)
C7_StrategySelection ==
    VersionRead =>
        /\ First32("meta") = 12 => strategy = "Format12Strategy"
        /\ First32("meta") \in 13..17 => strategy = "Format13To17Strategy"
        /\ First32("meta") \in 18..20 => strategy = "Format18PlusStrategy"
        /\ First32("meta") \notin 12..20 => Unsupported(First32("meta"))
        /\ strategy # "None" => First32("meta") \in 12..20

C7_Witness ==
    /\ VersionRead
    /\ First32("meta") = 21
    /\ Unsupported(21)

(***************************************************************************)
(* C8.  Mandatory chunks: initialization fails naming the metadata chunk   *)
(* exactly when the container holds no metadata chunk and, given a         *)
(* metadata chunk with a supported version, fails naming the string-pool   *)
(* chunk exactly when the container holds no string-pool chunk; a chunk    *)
(* that is present with a zero-length payload is not reported missing.     *)
(***************************************************************************)
C8_MissingChunkExactly ==
    state # "new" =>
        /\ (error.msg = "Missing required 'meta' chunk") = ~chunks["meta"].some
        /\ (Len(Data("meta")) >= VersionLen /\ First32("meta") \in 12..20)
           => (error.msg = "Missing required 'stri' chunk") = ~chunks["stri"].some

DeclaresSize ==
    /\ state # "new"
    /\ Len(Data("stri")) >= VersionLen
    /\ First32("stri") > 0

\* _initialize got as far as building the String Table.
TableAttempted ==
    /\ Len(Data("meta")) >= VersionLen
    /\ First32("meta") \in 12..20

(***************************************************************************)
(* C9.  Checksum enforcement: for a string-pool chunk whose first 4 bytes  *)
(* declare an uncompressed size S > 0, construction succeeds only if the   *)
(* remainder decompresses to exactly S bytes; when decompression fails or  *)
(* yields another length, construction raises and no String Table and no   *)
(* parser is produced.                                                     *)
(***************************************************************************)
C9_ChecksumEnforced ==
    DeclaresSize =>
        /\ state = "ready" => (zlib_out.ok /\ Len(zlib_out.data) = First32("stri"))
        /\ (~zlib_out.ok \/ Len(zlib_out.data) # First32("stri"))
           => /\ state = "failed"
              /\ ~string_table.built
              /\ TableAttempted => error.type = "ValueError"
        /\ (TableAttempted /\ zlib_out.ok /\ Len(zlib_out.data) # First32("stri"))
           => error.msg = "Decompressed size mismatch"

C9_Witness ==
    /\ DeclaresSize
    /\ TableAttempted
    /\ zlib_out.ok
    /\ Len(zlib_out.data) = First32("stri") + 1
    /\ state = "failed"
    /\ error.msg = "Decompressed size mismatch"

(***************************************************************************)
(* C10.  Bounded consumption: at every step of decoding a chunk (symbols,  *)
(* references, relations, sources, compile command) the cursor lies        *)
(* between 0 and the chunk's length, whatever counts the chunk declares.   *)
(***************************************************************************)
C10_CursorWithinChunk ==
    op # "none" => (0 <= pos /\ pos <= Len(Data(ChunkOf(op))))

\* A 'srcs' chunk cut inside a node: the decoder ran into the end of the
\* chunk and stopped with the cursor on it.
C10_Witness ==
    /\ Trunc("srcs")
    /\ ~Complete
    /\ gen.cut > 0
    /\ op = "parse_sources"
    /\ ret.status = "returned"
    /\ Len(ret.value) = Len(gen.recs)
    /\ pos = Len(Data("srcs"))

(***************************************************************************)
(* Claims about RIFFParser, checked under RiffSpec                         *)
(***************************************************************************)
\* RIFFParser.__init__ has returned and IdxFileParser._initialize not begun.
RiffDone == riff_state = "done"

\* The chunks a file was written with, as the dict that holds them all.
WrittenChunks ==
    [k \in 1..Len(gen.list) |->
        [key |-> gen.list[k].id, value |-> PayloadOf(k, gen.list[k].len)]]

\* A file written as the format says: whole, its ids ASCII and distinct.
WellFormed ==
    /\ gen.family = "whole"
    /\ \A k \in 1..Len(gen.list) : gen.list[k].id \in AsciiTags
    /\ \A j, k \in 1..Len(gen.list) : gen.list[j].id = gen.list[k].id => j = k

(***************************************************************************)
(* C11.  Container chunk walk: for a well-formed file whose body is a      *)
(* sequence of chunks with distinct ids and payloads of any length, each   *)
(* written as 4-byte id, 32-bit little-endian length, payload and one      *)
(* padding byte after a payload of odd length, the chunk map holds each id *)
(* mapped to exactly its payload: no padding byte is taken into a payload  *)
(* or read as the start of the next id.                                    *)
(***************************************************************************)
C11_ChunkWalk ==
    (WellFormed /\ riff_state # "header")
    => /\ riff_state \in {"chunks", "done"}
       /\ riff_state = "done" => riff_chunks = WrittenChunks
       /\ \A i \in 1..Len(riff_chunks) : riff_chunks[i] = WrittenChunks[i]

\* Two chunks, the first with a payload of odd length followed by its
\* padding byte, both in the map.
C11_Witness ==
    /\ WellFormed
    /\ RiffDone
    /\ Len(gen.list) = 2
    /\ gen.list[1].len = 1
    /\ riff_chunks = WrittenChunks

\* Where the region declared by the total-size field ends, as a file offset.
DeclaredEnd == file_size + RiffHeaderLen

\* The bytes of a payload lie in the file before the declared end.
InsideDeclared(value) ==
    \/ Len(value) = 0
    \/ \E a \in 1..Len(file) :
        /\ a + Len(value) - 1 <= Min(DeclaredEnd, Len(file))
        /\ SubSeq(file, a, a + Len(value) - 1) = value

(***************************************************************************)
(* C12.  Container stop condition: a chunk is read only while the cursor   *)
(* is before the end of the region the total-size field declares; once the *)
(* cursor has reached it no further chunk header is read, so no byte of    *)
(* the file beyond the declared size appears in the chunk map.             *)
(***************************************************************************)
C12_StopAtDeclaredSize ==
    /\ [][riff_chunks' # riff_chunks => f_tell < DeclaredEnd]_vars
    /\ [](\A i \in 1..Len(riff_chunks) : InsideDeclared(riff_chunks[i].value))

\* The first 4 bytes of the file and its bytes 8..11, as many as it has.
FileMagic == SubSeq(file, 1, Min(FourCCLen, Len(file)))
FileType == SubSeq(file, RiffHeaderLen + 1, Min(RiffHeaderLen + FourCCLen, Len(file)))

FormatError(msg, value) ==
    /\ state = "failed"
    /\ error.type = "ValueError"
    /\ error.msg = msg
    /\ error.arg = value
    /\ riff_chunks = <<>>

(***************************************************************************)
(* C13.  Container header validation: when the first 4 bytes are not the   *)
(* magic marker, or bytes 8..11 are not the type tag, parsing fails with a *)
(* format error that names the offending field and its value, before any   *)
(* chunk is read; no chunk map is filled from such a file.                 *)
(***************************************************************************)
C13_HeaderValidation ==
    riff_state # "header"
    => /\ FileMagic # RiffMagic => FormatError("Not a RIFF file", FileMagic)
       /\ (FileMagic = RiffMagic /\ FileType # CdIxType)
          => FormatError("Not a clangd index file", FileType)

\* The chunk written last under each raw tag of a file.
LastOfItsTag(k) == \A j \in (k + 1)..Len(gen.list) : gen.list[j].id # gen.list[k].id

(***************************************************************************)
(* C14.  Unknown chunks retained: for every chunk the reader walks over,   *)
(* its id one of the seven recognised ids or not, the chunk map afterwards *)
(* has an entry keyed by the chunk's raw 4-byte tag whose value is the     *)
(* chunk's payload; no chunk is discarded because of its id.               *)
(***************************************************************************)
C14_UnknownChunksRetained ==
    (gen.family = "whole" /\ RiffDone)
    => \A k \in 1..Len(gen.list) :
        LastOfItsTag(k)
        => dict_get(riff_chunks, gen.list[k].id) = Some(PayloadOf(k, gen.list[k].len))

(***************************************************************************)
(* Claims about single functions, checked under UnitSpec                   *)
(***************************************************************************)
Called(fn) == applied.fn = fn /\ outcome.done

\* The positions, from the start of a read_varint call on, of the bytes
\* with the most-significant bit clear.
Terminators ==
    {i \in (applied.start + 1)..Len(applied.buf) : applied.buf[i] < 128}
FirstTerminator == CHOOSE i \in Terminators : \A k \in Terminators : i <= k

RECURSIVE Pow128(_)
Pow128(i) == IF i = 0 THEN 1 ELSE 128 * Pow128(i - 1)

\* The sum over i < n of (byte_i AND 0x7F) * 2^(7i), byte_0 at position from.
RECURSIVE Base128(_, _, _)
Base128(buf, from, n) ==
    IF n = 0 THEN 0
    ELSE Base128(buf, from, n - 1) + (buf[from + n - 1] % 128) * Pow128(n - 1)

(***************************************************************************)
(* C15.  Varint codec: on any buffer and start position read_varint either *)
(* finds the first byte with the most-significant bit clear, n-1 bytes     *)
(* after the start, returns the sum over i < n of (byte_i AND 0x7F) *      *)
(* 2^(7i), untruncated, and advances the cursor by exactly n bytes; or it  *)
(* reaches the end of the buffer first and raises the end-of-data error.   *)
(* It returns no value from an unterminated sequence.                      *)
(***************************************************************************)
C15_VarintCodec ==
    Called("read_varint") =>
        IF Terminators # {}
        THEN /\ outcome.varint.err = NoError
             /\ outcome.varint.pos = FirstTerminator
             /\ outcome.varint.value =
                    Base128(applied.buf, applied.start + 1,
                            FirstTerminator - applied.start)
        ELSE /\ outcome.varint.err = "EOFError"

\* Three bytes 0xFF 0xFF 0x7F decode to 2^21 - 1, and a buffer that ends on
\* a continuation byte raises.
C15_Witness ==
    /\ Called("read_varint")
    /\ \/ /\ applied.buf = <<255, 255, 127>>
          /\ applied.start = 0
          /\ outcome.varint = [pos |-> 3, err |-> NoError, value |-> 2097151]
       \/ /\ applied.buf = <<1, 128>>
          /\ applied.start = 1
          /\ outcome.varint.err = "EOFError"

\* Where the kind byte and the location of a parse_ref stream end.
LocationEnd == applied.start + 1 + Len(EncLoc(applied.loc))

(***************************************************************************)
(* C17.  Version-conditional reference layout: on one byte stream that     *)
(* starts with a kind byte and a 5-varint location and has 8 bytes or more *)
(* after them, the version-12 decoder consumes exactly 8 bytes fewer than  *)
(* the version-13-to-17 and the version-18-plus decoders and reports no    *)
(* container id where they report the following 8 bytes; all three report  *)
(* the same kind and the same location.                                    *)
(***************************************************************************)
C17_ReferenceLayouts ==
    Called("parse_ref") =>
        /\ outcome.v12.err = NoError
        /\ outcome.v13.err = NoError
        /\ outcome.v18.err = NoError
        /\ outcome.v12.pos = LocationEnd
        /\ outcome.v13.pos = outcome.v12.pos + 8
        /\ outcome.v18.pos = outcome.v12.pos + 8
        /\ ~outcome.v12.value.container.some
        /\ outcome.v13.value.container =
                [some |-> TRUE,
                 bytes |-> SubSeq(applied.buf, LocationEnd + 1, LocationEnd + 8)]
        /\ outcome.v18.value.container = outcome.v13.value.container
        /\ outcome.v12.value.kind = applied.kind
        /\ outcome.v13.value.kind = applied.kind
        /\ outcome.v18.value.kind = applied.kind
        /\ outcome.v13.value.location = outcome.v12.value.location
        /\ outcome.v18.value.location = outcome.v12.value.location
        /\ outcome.v12.value.location.start_column = applied.loc[3]

\* A reference two bytes into the buffer, its location with a two-byte
\* varint, three bytes after the container id.
C17_Witness ==
    /\ Called("parse_ref")
    /\ applied.start = 2
    /\ applied.loc[3] = 300
    /\ Len(applied.buf) = LocationEnd + 11
    /\ outcome.v12.pos = LocationEnd
    /\ outcome.v18.pos = LocationEnd + 8
    /\ outcome.v18.value.container.bytes = IdBytes(7)

\* How many bytes the two varints of an include-header stream take.
TwoVarints == Len(EncVarint(applied.h)) + Len(EncVarint(applied.p))

(***************************************************************************)
(* C18.  Include-header decoding per strategy: every include header takes  *)
(* exactly two varints, the header index h and a value p.  Under versions  *)
(* 18-20 the result has references = p >> 2 and directive = p AND 3, so    *)
(* that references * 4 + directive = p for every p; under versions 12-17   *)
(* it has references = p and directive = Include whatever p's low bits.    *)
(***************************************************************************)
C18_IncludeHeaderPerStrategy ==
    Called("parse_include_header") =>
        /\ \A v \in {outcome.v12, outcome.v13, outcome.v18} :
                /\ v.err = NoError
                /\ v.pos = TwoVarints
                /\ v.value.header = StringTable_get(PoolStrings, applied.h)
        /\ outcome.v18.value.supported_directives \in 0..3
        /\ outcome.v18.value.references * 4 + outcome.v18.value.supported_directives
                = applied.p
        /\ outcome.v12.value.references = applied.p
        /\ outcome.v12.value.supported_directives = Include
        /\ outcome.v13.value.references = applied.p
        /\ outcome.v13.value.supported_directives = Include

\* The packed value (5 << 2) | 1: five references, directive Include under
\* version 18; 21 references under the earlier versions.
C18_Witness ==
    /\ Called("parse_include_header")
    /\ applied.p = 21
    /\ applied.h = 1
    /\ outcome.v18.value = [header |-> <<97>>, references |-> 5,
                            supported_directives |-> 1]
    /\ outcome.v12.value.references = 21

(***************************************************************************)
(* Claims about the records of a chunk, checked under Spec                 *)
(***************************************************************************)
\* What a written location reads back as: absent when its file index is 0.
LocationWritten(l) ==
    IF l[1] = 0 THEN NoLocation
    ELSE [present |-> TRUE, file_uri |-> StringTable_get(PoolStrings, l[1]),
          start_line |-> l[2], start_column |-> l[3],
          end_line |-> l[4], end_column |-> l[5]]

\* What a written include header <<h, p>> reads back as under version v.
IncludeHeaderWritten(inc, v) ==
    [header |-> StringTable_get(PoolStrings, inc[1]),
     references |-> IF v >= 18 THEN inc[2] \div 4 ELSE inc[2],
     supported_directives |-> IF v >= 18 THEN inc[2] % 4 ELSE Include]

\* The Symbol a written symbol record r stands for under version v.
SymbolWritten(r, v) ==
    [id |-> r.id, kind |-> r.kind, language |-> r.language,
     name |-> StringTable_get(PoolStrings, r.name),
     scope |-> StringTable_get(PoolStrings, r.scope),
     template_specialization_args |-> StringTable_get(PoolStrings, r.targs),
     definition |-> LocationWritten(r.def),
     canonical_declaration |-> LocationWritten(r.decl),
     references |-> r.references, flags |-> r.flags,
     signature |-> StringTable_get(PoolStrings, r.sig),
     completion_snippet_suffix |-> StringTable_get(PoolStrings, r.snip),
     documentation |-> StringTable_get(PoolStrings, r.doc),
     return_type |-> StringTable_get(PoolStrings, r.rtype),
     type |-> StringTable_get(PoolStrings, r.type),
     include_headers |-> [i \in 1..Len(r.incs) |-> IncludeHeaderWritten(r.incs[i], v)]]

(***************************************************************************)
(* C16.  Symbol record layout: decoding a complete symbol record consumes, *)
(* in this order and nothing else, the 8-byte id, kind byte, language      *)
(* byte, three varint string indices (name, scope, template args), two     *)
(* Locations of 5 varints, the varint reference count, the flags byte,     *)
(* five varint string indices (signature, snippet, documentation, return   *)
(* type, type), the varint include-header count c and c include headers;   *)
(* each string field is the String Table lookup of its index and the next  *)
(* record starts right after the last include header.                      *)
(***************************************************************************)
C16_SymbolLayout ==
    (Trunc("symb") /\ Complete /\ op = "parse_symbols")
    => /\ ret.status \in {"running", "returned"}
       /\ pos = Len(EncAll("symb", SubSeq(Written, 1, Len(acc)), gen.version))
       /\ acc = [i \in 1..Len(acc) |-> SymbolWritten(Written[i], gen.version)]
       /\ ret.status = "returned"
          => /\ ret.value = acc
             /\ Len(acc) = Len(Written)

\* A version-18 shard with string pool "", "a", "b" and one symbol: name
\* index 2, no definition, one include header packed as (3 << 2) | 2.
C16_Witness ==
    /\ Trunc("symb")
    /\ Complete
    /\ gen.version = 18
    /\ Written = <<SymA>>
    /\ op = "parse_symbols"
    /\ ret.status = "returned"
    /\ Len(ret.value) = 1
    /\ ret.value[1].name = <<98>>
    /\ ~ret.value[1].definition.present
    /\ ret.value[1].include_headers =
            << [header |-> <<97>>, references |-> 3, supported_directives |-> 2] >>

(***************************************************************************)
(* C19.  Directive domain: in every Symbol the symbol decoder returns,     *)
(* under any supported version and for any packed varint, the              *)
(* supported-directive value of every include header is one of             *)
(* Invalid = 0, Include = 1, Import = 2.                                   *)
(***************************************************************************)
C19_DirectiveDomain ==
    (op = "parse_symbols" /\ ret.status = "returned")
    => \A i \in 1..Len(ret.value) :
        \A j \in 1..Len(ret.value[i].include_headers) :
            ret.value[i].include_headers[j].supported_directives \in {0, 1, 2}

\* The decoder of each chunk.
ChunkDecoder(id) ==
    CASE id = "symb" -> "parse_symbols"
      [] id = "refs" -> "parse_refs"
      [] id = "rela" -> "parse_relations"
      [] id = "srcs" -> "parse_sources"
      [] id = "cmdl" -> "parse_command"

\* The decoded value of the field that holds the enum byte of the record.
EnumFieldDecoded ==
    CASE gen.field = "Symbol.kind" -> ret.value[1].kind
      [] gen.field = "Symbol.language" -> ret.value[1].language
      [] gen.field = "Reference.kind" -> ret.value[1].value[1].kind
      [] gen.field = "Relation.predicate" -> ret.value[1].predicate

(***************************************************************************)
(* C20.  Forward-compatible enums: for every byte value 0..255 as a        *)
(* Symbol kind, Symbol language, Reference kind or Relation predicate,     *)
(* the record is decoded and the decoded field keeps the raw byte value    *)
(* (a named member for the known values, an unknown variant carrying the   *)
(* value for the others); decoding never aborts because of such a byte.    *)
(***************************************************************************)
C20_EnumsForwardCompatible ==
    (gen.family = "enum" /\ op = ChunkDecoder(gen.id) /\ ret.status # "running")
    => /\ ret.status = "returned"
       /\ Len(ret.value) = 1
       /\ EnumFieldDecoded = gen.byte

\* The byte 255, which no enum class names, as the kind of a Symbol.
C20_Witness ==
    /\ gen.family = "enum"
    /\ gen.field = "Symbol.kind"
    /\ gen.byte = 255
    /\ op = "parse_symbols"
    /\ ret.status = "returned"
    /\ ret.value[1].kind = 255

\* The node a producer wrote as n, with its string indices looked up.
NodeWritten(n) ==
    [flags |-> n.flags,
     uri |-> StringTable_get(string_table.strings, n.uri),
     digest |-> n.digest,
     direct_includes |->
        [i \in 1..Len(n.includes) |-> StringTable_get(string_table.strings, n.includes[i])]]

(***************************************************************************)
(* C23.  Include-graph decoder, truncated tail: on a 'srcs' chunk of k     *)
(* complete nodes (flags byte, varint URI index, 8-byte digest, varint     *)
(* include count c, c varint indices) followed by a proper prefix of one   *)
(* more node, parse_sources returns (does not raise) exactly the k         *)
(* complete nodes in order, each with its includes in the order written.   *)
(***************************************************************************)
C23_SourcesTruncatedTail ==
    (Trunc("srcs") /\ ~Complete /\ Ended("parse_sources"))
    => /\ ret.status = "returned"
       /\ ret.value = [i \in 1..Len(gen.recs) |-> NodeWritten(gen.recs[i])]

\* A node with two includes came back whole although the next node was cut
\* inside its digest.
C23_Witness ==
    /\ Trunc("srcs")
    /\ Ended("parse_sources")
    /\ gen.recs = <<NodeA>>
    /\ gen.tail = NodeA
    /\ gen.cut = 5
    /\ ret.status = "returned"
    /\ Len(ret.value) = 1
    /\ ret.value[1].direct_includes = <<PoolStrings[3], PoolStrings[2]>>

\* The command a producer wrote as c, with its string indices looked up.
CommandWritten(c) ==
    [some |-> TRUE,
     directory |-> StringTable_get(string_table.strings, c.dir),
     arguments |->
        [i \in 1..Len(c.args) |-> StringTable_get(string_table.strings, c.args[i])]]

(***************************************************************************)
(* C27.  Compile-command truncation is not recovered: on a non-empty       *)
(* 'cmdl' chunk that ends before the directory index, the argument count   *)
(* or all the declared argument indices have been read, parse_command      *)
(* raises the unexpected-end-of-data error and returns no partial command; *)
(* on a complete chunk it returns the directory string and exactly the     *)
(* declared number of arguments in the order written.                      *)
(***************************************************************************)
C27_CommandTruncationRaises ==
    (Trunc("cmdl") /\ gen.cut > 0 /\ Ended("parse_command"))
    => IF Complete
       THEN ret = Returned(CommandWritten(gen.tail))
       ELSE ret = Raised("EOFError")

\* The chunk ended after the argument count and the first of two arguments.
C27_Witness ==
    /\ Trunc("cmdl")
    /\ Ended("parse_command")
    /\ gen.tail = CmdA
    /\ gen.cut = 3
    /\ ret.exc = "EOFError"

\* What the try block of decoder `name` comes to on the bytes data at p.
RecordAt(name, data, p) ==
    CASE name = "parse_symbols" -> _parse_symbol(data, p, strategy, string_table.strings)
      [] name = "parse_refs" -> _parse_refs_group(data, p, strategy, string_table.strings)
      [] name = "parse_relations" -> _parse_relation(data, p)
      [] name = "parse_sources" -> _parse_source(data, p, string_table.strings)

\* The records decoder `name` collects from the bytes data, from position p on
\* with the collection a, r being what its try block comes to at p.
RECURSIVE Replay(_, _, _, _, _)
Replay(name, data, p, a, r) ==
    IF p >= Len(data) THEN Returned(a)
    ELSE IF r.err \in Caught THEN Returned(a)
    ELSE IF r.err # NoError THEN Raised(r.err)
    ELSE Replay(name, data, r.pos, Stored(name, a, r.vals[1]),
                IF r.pos >= Len(data) THEN r ELSE RecordAt(name, data, r.pos))

CommandOf(r) == IF r.err = NoError THEN Returned(r.vals[1]) ELSE Raised(r.err)

EmptyResult(name) == IF name = "parse_command" THEN NoCommand ELSE <<>>

\* What decoder `name` comes to on the chunk map cs of a constructed parser.
Decoded(name, cs) ==
    IF ~cs[ChunkOf(name)].some \/ cs[ChunkOf(name)].data = <<>>
    THEN Returned(EmptyResult(name))
    ELSE IF name = "parse_command"
    THEN CommandOf(_parse_command(cs["cmdl"].data, string_table.strings))
    ELSE Replay(name, cs[ChunkOf(name)].data, 0, <<>>,
                RecordAt(name, cs[ChunkOf(name)].data, 0))

\* The container is one of those holding a subset of the optional chunks.
Subset == gen.family = "subset" /\ state = "ready"

(***************************************************************************)
(* C21.  Optional chunks: in a container with valid metadata and string    *)
(* pool and any subset of the five optional chunks, each decoder whose     *)
(* chunk is absent returns its empty result (empty symbol list, reference  *)
(* map, relation list, include-graph list, no compile command) without     *)
(* raising, and a decoder whose chunk is present comes to the same result  *)
(* as in the container that holds all five chunks.                         *)
(***************************************************************************)
C21_OptionalChunks ==
    Subset =>
        \A d \in Decoders :
            Ended(d) =>
                IF ChunkOf(d) \in gen.present
                THEN ret = Decoded(d, SubsetContainer(gen.version, OptionalIds, gen.stray))
                ELSE ret = Returned(EmptyResult(d))

\* Only 'refs' and 'cmdl' are there: parse_symbols has returned its empty
\* list, and parse_refs then returned the two symbol ids of the three groups.
C21_Witness ==
    /\ Subset
    /\ gen.present = {"refs", "cmdl"}
    /\ first_call.of["parse_symbols"] = Returned(<<>>)
    /\ first_call.of["parse_command"].status = "returned"
    /\ Ended("parse_refs")
    /\ ret.status = "returned"
    /\ Len(ret.value) = 2

(***************************************************************************)
(* C22.  Purity and idempotence: once a parser is constructed, calls of    *)
(* parse_symbols, parse_refs, parse_relations, parse_sources and           *)
(* parse_command in any order and number leave the chunk map, the string   *)
(* table, the format version and the strategy as they are; every call of   *)
(* a decoder ends as its first call ended; and the result is determined by *)
(* the bytes of the file, so that two parsers built from the same bytes    *)
(* return equal results.                                                   *)
(***************************************************************************)
EndsAsFirstCall ==
    \A d \in Decoders :
        (first_call.on /\ Ended(d)) =>
            /\ ret = first_call.of[d]
            /\ ret = Decoded(d, chunks)

C22_PureAndIdempotent ==
    /\ [][state = "ready" =>
            UNCHANGED <<chunks, string_table, format_version, strategy>>]_vars
    /\ []EndsAsFirstCall

\* Every decoder has been called, and a second call of parse_symbols has
\* returned its two symbols.
C22_Witness ==
    /\ \A d \in Decoders : first_call.of[d] # NoCall
    /\ first_call.again
    /\ Ended("parse_symbols")
    /\ ret.status = "returned"
    /\ Len(ret.value) = 2

\* Construction failed with the error of one of the fatal checks.
Reports(msg) ==
    /\ state = "failed"
    /\ error.type = "ValueError"
    /\ error.msg = msg

\* The metadata chunk holds a version, and one that is supported.
VersionSupported ==
    /\ Len(Data("meta")) >= VersionLen
    /\ select_strategy(First32("meta")) # "None"

\* How building the String Table of the 'stri' chunk ends.
StriDecode == StringTable_init(Data("stri"), zlib_out)

(***************************************************************************)
(* C25.  Initialization check precedence: construction applies its fatal   *)
(* checks in the order magic marker, type tag, metadata chunk presence,    *)
(* version range, string-pool chunk presence, string-pool decode, and      *)
(* reports the error of the first check that fails; a file with an         *)
(* unsupported version and no string-pool chunk reports the unsupported    *)
(* version, and no String Table is built for an unsupported version.       *)
(***************************************************************************)
C25_CheckPrecedence ==
    state # "new" =>
        IF FileMagic # RiffMagic THEN Reports("Not a RIFF file")
        ELSE IF FileType # CdIxType THEN Reports("Not a clangd index file")
        ELSE IF ~chunks["meta"].some THEN Reports("Missing required 'meta' chunk")
        ELSE IF ~VersionSupported
        THEN Reports("Unsupported format version") /\ ~string_table.built
        ELSE IF ~chunks["stri"].some THEN Reports("Missing required 'stri' chunk")
        ELSE IF StriDecode.err # NoError
        THEN state = "failed" /\ error.type = StriDecode.err
        ELSE state = "ready"

\* A container: a whole file whose chunk ids are 4-byte ASCII tags.
ContainerFile ==
    /\ gen.family \in {"whole", "shard"}
    /\ \A k \in 1..Len(gen.list) : ascii_decode_ignore(gen.list[k].id) = gen.list[k].id

\* The payload the k-th chunk of the file was written with.
PayloadWritten(k) ==
    IF gen.family = "shard" THEN gen.list[k].data ELSE PayloadOf(k, gen.list[k].len)

\* The group written last under its symbol id in the 'refs' chunk.
LastOfItsId(i) ==
    \A j \in (i + 1)..Len(gen.groups) : gen.groups[j].id # gen.groups[i].id

ChunkMapKeepsLast ==
    (ContainerFile /\ RiffDone)
    => /\ \A k \in 1..Len(gen.list) :
            LastOfItsTag(k)
            => dict_get(riff_chunks, gen.list[k].id) = Some(PayloadWritten(k))
       /\ Len(riff_chunks) = Cardinality({gen.list[k].id : k \in 1..Len(gen.list)})

ReferenceMapKeepsLast ==
    (gen.family = "shard" /\ Ended("parse_refs"))
    => /\ ret.status = "returned"
       /\ \A i \in 1..Len(gen.groups) :
            LastOfItsId(i)
            => dict_get(ret.value, gen.groups[i].id)
               = Some(Clean("refs", gen.groups[i]).refs)
       /\ Len(ret.value) = Cardinality({gen.groups[i].id : i \in 1..Len(gen.groups)})

(***************************************************************************)
(* C26.  Duplicate keys keep the last writer: when a 'refs' chunk holds    *)
(* two complete groups with the same 8-byte symbol id, the reference map   *)
(* holds for that id only the References of the later group; when a        *)
(* container holds two chunks with the same id, the chunk map holds only   *)
(* the later chunk's payload; the number of entries of either map is the   *)
(* number of distinct ids, not the number of groups or chunks.             *)
(***************************************************************************)
C26_LastWriterWins == ChunkMapKeepsLast /\ ReferenceMapKeepsLast

\* Eight chunks with two 'refs' chunks gave a map of seven entries, and the
\* three groups of the later 'refs' chunk a reference map of two.
C26_Witness ==
    /\ gen.family = "shard"
    /\ Len(gen.list) = 8
    /\ Len(riff_chunks) = 7
    /\ Ended("parse_refs")
    /\ Len(ret.value) = 2
    /\ dict_get(ret.value, GrpD.id) = Some(Clean("refs", GrpD).refs)
    /\ Clean("refs", GrpD).refs # Clean("refs", GrpA).refs

(***************************************************************************)
(* Claims about the index generator                                        *)
(***************************************************************************)
\* The places in clangd's stdin where the body of such a message lies.
SentAt(kind, method) ==
    {i \in 1..Len(stdin.written) :
        /\ stdin.written[i].part = "body"
        /\ stdin.written[i].of.kind = kind
        /\ stdin.written[i].of.method = method}

\* shutdown() has called terminate() on a clangd that was started.
Terminated == pc["main"] \in {"wait", "close_log", "done"} /\ process # "None"

(***************************************************************************)
(* C24.  Graceful shutdown ordering: whenever shutdown() runs after clangd *)
(* was started, an LSP 'shutdown' request is sent, then an 'exit'          *)
(* notification, and only afterwards is the clangd process terminated (and *)
(* killed if it has not exited within the wait timeout); the log file      *)
(* handle, if open, is closed last.                                        *)
(***************************************************************************)
C24_GracefulShutdownOrder ==
    /\ Terminated
       => \E i \in SentAt("request", "shutdown") :
            \E j \in SentAt("notification", "exit") : i < j
    /\ process = "killed" => pc["main"] \in {"close_log", "done"}
    /\ log_file_handle = "closed" => pc["main"] = "done"

\* The pieces of a message lie side by side in clangd's stdin, header first.
Framed ==
    \A i \in 1..Len(stdin.written) :
        /\ stdin.written[i].part = "body"
           => /\ i > 1
              /\ stdin.written[i - 1] = [of |-> stdin.written[i].of, part |-> "header"]
        /\ (stdin.written[i].part = "header" /\ i < Len(stdin.written))
           => stdin.written[i + 1] = [of |-> stdin.written[i].of, part |-> "body"]

\* Outside the lock nothing written to a running clangd waits to be flushed.
FlushedUnderLock ==
    (stdin_lock = "free" /\ process = "running") => stdin.flushed = Len(stdin.written)

\* The requests in clangd's stdin, in the order written.
RequestsSent ==
    SelectSeq(stdin.written, LAMBDA x : x.part = "header" /\ x.of.kind = "request")

RequestIdsCount ==
    \A k \in 1..Len(RequestsSent) : RequestsSent[k].of.id = k

(***************************************************************************)
(* C30.  Atomic LSP framing: with the main thread (requests and            *)
(* notifications) and the message reader thread (responses to              *)
(* window/workDoneProgress/create) sending concurrently, every message is  *)
(* written to clangd's stdin as one contiguous header plus body and        *)
(* flushed while the stdin lock is held, so the bytes of two messages are  *)
(* never interleaved, and the request ids _send_request issues are         *)
(* strictly increasing from 1.                                             *)
(***************************************************************************)
C30_AtomicFraming ==
    /\ [](Framed /\ FlushedUnderLock /\ RequestIdsCount)
    /\ [][stdin' # stdin => (stdin_lock \in DOMAIN pc /\ stdin_lock' = stdin_lock
                             /\ pc[stdin_lock] \in {"write", "flush"})]_vars

\* The reader thread waits for the lock while the main thread, which holds
\* it, has written the header of its second request and not yet the body;
\* the reader's first response lies whole between two messages of main.
C30_Witness ==
    /\ stdin_lock = "main"
    /\ pc["reader"] = "acquire"
    /\ local["main"].written = 1
    /\ local["main"].message.kind = "request"
    /\ request_id = 2
    /\ \E i \in 3..Len(stdin.written) :
        /\ stdin.written[i].of.kind = "response"
        /\ stdin.written[i].part = "body"
        /\ i < Len(stdin.written)

\* The count the dictionary holds for a file, 0 when it has no entry.
Counted(f) ==
    IF dict_get(files_with_errors, f).some THEN dict_get(files_with_errors, f).data ELSE 0

\* Both counting threads are between two events.
CountingIdle == \A t \in CountingThreads : pc[t] = "idle"

\* C28: with the stderr thread and the message thread running side by
\* side, whenever both have finished the events they took up,
\* files_with_errors[f] is the number of error lines the stderr thread
\* attributed to f plus the number of severity-1 diagnostics the message
\* thread attributed to f, for every file f.
C28_NoLostErrorCounts ==
    (DOMAIN pc = CountingThreads /\ CountingIdle) =>
        \A f \in SourceFiles :
            Counted(f) = attributed["stderr"][f] + attributed["reader"][f]

\* The monitoring loop of wait_for_indexing_completion has been left.
MonitoringOver ==
    pc["main"] \in {"settle", "status", "ensure", "final_while", "final_sleep",
                    "final_check", "returned"}

MonitoringEnds == <>MonitoringOver

\* C29: wait_for_indexing_completion returns in every execution, also when
\* clangd keeps reporting indexing activity for ever.
C29_WaitTerminates == <>(pc["main"] = "returned")

====
